---------------------------- MODULE Spec2Model ----------------------------
(***************************************************************************)
(* WebhookPush: the durable push dispatch queue (src/src/queue.rs), the    *)
(* push sender's error classification (src/src/push.rs) and the streaming  *)
(* chunker of the hook handler (src/src/handlers.rs).                      *)
(*                                                                         *)
(* Every redb write transaction is one atomic action: redb serialises      *)
(* write transactions (begin_write blocks until the previous one ends), so *)
(* the commit boundaries of the program are exactly the states of the      *)
(* model.                                                                  *)
(***************************************************************************)
EXTENDS Integers, Sequences, FiniteSets, TLC

VARIABLES
    subs,         \* subscriptions table: the uuids that have a row
    chan,         \* mpsc channel of QueueInsert feeding the writer task
    pending,      \* queue_pending : seq -> record
    inflight,     \* queue_inflight: seq -> record
    next_seq,     \* queue_meta["next_seq"]
    queue_bytes,  \* queue_meta["queue_bytes"]
    wk,           \* per worker: position in worker_loop and its locals
    calls,        \* history: number of DiskQueue::enqueue calls made so far
    acks,         \* per enqueue call: what the caller has got back so far
    seqlog,       \* history: the seqs handed out, in order of assignment
    cfg,          \* Config: chunk_data_bytes, max_payload_bytes
    hk,           \* per hook request: position in hook and its locals
    envs,         \* per request_id: the envelopes try_enqueue accepted, in order
    rate,         \* RateLimiter.inner: uuid -> RateEntry
    sz,           \* the envelope sizing under examination
    codec,        \* the queue record under encode_record and decode_record
    lim,          \* the run's writer channel capacity and number of enqueue calls
    sb,           \* the last subscribe request and its answer
    recent,       \* history: per uuid, the allow calls of the last 60 s
    resp          \* history: the last unsubscribe request and its response
\* hk[r].body and hk[r].reads are history: the body as the client sent it and
\* the number of reads that delivered it

qvars == <<subs, chan, pending, inflight, next_seq, queue_bytes, wk,
           calls, acks, seqlog>>

hvars == <<cfg, hk, envs, rate>>

svars == <<sz, codec, lim, sb>>

gvars == <<recent, resp>>

vars == <<qvars, hvars, svars, gvars>>

-----------------------------------------------------------------------------
(* Bounds of the model and program constants *)

MaxCalls == 2          \* enqueue calls explored
WriteBufferCap == 1    \* capacity of the writer channel (WRITE_BUFFER, scaled)
MaxExits == 2          \* exits of the process explored
WriterCalls == 4       \* enqueue calls explored with writer and callers alone
WriterBufferCap == 2   \* capacity of the writer channel in these runs
QueueMaxBytes == 53    \* cfg.queue_max_bytes: room for a short and a long record

RETRY_DELAY_MS == 500
MAX_ATTEMPTS == 5
CHUNK_DELAY_MS == 50
UuidLen == 8

UUIDS == {"u1", "u2"}
Workers == {"w1", "w2"}
\* What the hook handlers submit: the uuid, the envelope length and the delay
\* of send_after behind the clock (a later chunk of a request is CHUNK_DELAY_MS
\* behind the one before it).
EnqueueInputs ==
    { [uuid |-> "u1", len |-> 1, delay |-> 0],
      [uuid |-> "u2", len |-> 2, delay |-> CHUNK_DELAY_MS] }
TickMs == RETRY_DELAY_MS

None == [none |-> TRUE]

\* Utc::now().timestamp_millis(), measured from the current instant
now == 0

Min(a, b) == IF a <= b THEN a ELSE b

-----------------------------------------------------------------------------
(* Tables *)

Insert(table, key, value) ==
    [k \in DOMAIN table \cup {key} |-> IF k = key THEN value ELSE table[k]]

Remove(table, key) == [k \in DOMAIN table \ {key} |-> table[k]]

EmptyTable == [k \in {} |-> None]

RecordLenPayloadOnly(rec) == rec.payload.len

\* encode_record: 1 + uuid + 8 + 4 + 4 + payload bytes
RecordLen(rec) == 1 + UuidLen + 8 + 4 + 4 + rec.payload.len

RECURSIVE SumLen(_, _)
SumLen(table, keys) ==
    IF keys = {} THEN 0
    ELSE LET k == CHOOSE x \in keys : TRUE
         IN RecordLen(table[k]) + SumLen(table, keys \ {k})

TableBytes(table) == SumLen(table, DOMAIN table)

PayloadIds(table) == {table[k].payload.id : k \in DOMAIN table}

InQueue(id) == id \in PayloadIds(pending) \cup PayloadIds(inflight)

-----------------------------------------------------------------------------
(* Worker locals *)

IdleWorker == [pc |-> "top", seq |-> 0, rec |-> None,
               result |-> "none"]

\* a worker in its sleep of IDLE_SLEEP_MS after a claim that found nothing
SleepingWorker == [IdleWorker EXCEPT !.pc = "sleep"]

Max(a, b) == IF a >= b THEN a ELSE b

-----------------------------------------------------------------------------
(* The queue transactions of queue.rs *)

EnqueueFitsCurrent(current_bytes, record_len) ==
    current_bytes <= QueueMaxBytes

\* enqueue_record's admission test: next_bytes > max_bytes fails "queue full"
EnqueueFits(current_bytes, record_len) ==
    current_bytes + record_len <= QueueMaxBytes

enqueue_record_seq_spent(record) ==
    IF EnqueueFits(queue_bytes, RecordLen(record))
    THEN /\ pending' = Insert(pending, next_seq, record)
         /\ next_seq' = next_seq + 1
         /\ queue_bytes' = queue_bytes + RecordLen(record)
         /\ seqlog' = Append(seqlog, next_seq)
    ELSE /\ next_seq' = next_seq + 1
         /\ seqlog' = Append(seqlog, next_seq)
         /\ UNCHANGED <<pending, queue_bytes>>

\* enqueue_record: one write transaction, given up when the queue is full
enqueue_record(record) ==
    IF EnqueueFits(queue_bytes, RecordLen(record))
    THEN /\ pending' = Insert(pending, next_seq, record)
         /\ next_seq' = next_seq + 1
         /\ queue_bytes' = queue_bytes + RecordLen(record)
         /\ seqlog' = Append(seqlog, next_seq)
    ELSE UNCHANGED <<pending, next_seq, queue_bytes, seqlog>>

ReadySeqsAll(now_ms) == DOMAIN pending

\* claim_next: the first pending record, in ascending seq, that is ready
ReadySeqs(now_ms) == {s \in DOMAIN pending : pending[s].send_after_ms <= now_ms}

claim_next_waiting(now_ms) ==
    IF DOMAIN pending = {} THEN None
    ELSE LET from == IF ReadySeqs(now_ms) = {} THEN DOMAIN pending
                     ELSE ReadySeqs(now_ms)
             s == CHOOSE x \in from : \A y \in from : x <= y
         IN [none |-> FALSE, seq |-> s, rec |-> pending[s]]

claim_next_last(now_ms) ==
    IF ReadySeqs(now_ms) = {} THEN None
    ELSE LET s == CHOOSE x \in ReadySeqs(now_ms) :
                      \A y \in ReadySeqs(now_ms) : x >= y
         IN [none |-> FALSE, seq |-> s, rec |-> pending[s]]

claim_next(now_ms) ==
    IF ReadySeqs(now_ms) = {} THEN None
    ELSE LET s == CHOOSE x \in ReadySeqs(now_ms) :
                      \A y \in ReadySeqs(now_ms) : x <= y
         IN [none |-> FALSE, seq |-> s, rec |-> pending[s]]

claimed_kept(table, seq) == table

\* claim_next's pending.remove(seq), in the transaction of the insert into
\* queue_inflight
claimed_out(table, seq) == Remove(table, seq)

DropBytesKept(current_bytes, len) == current_bytes

\* drop_inflight's byte update: current_bytes.saturating_sub(len)
DropBytes(current_bytes, len) == Max(current_bytes - len, 0)

drop_inflight(seq) ==
    /\ IF seq \in DOMAIN inflight
       THEN /\ inflight' = Remove(inflight, seq)
            /\ queue_bytes' = DropBytes(queue_bytes, RecordLen(inflight[seq]))
       ELSE UNCHANGED <<inflight, queue_bytes>>
    /\ UNCHANGED <<pending, next_seq, seqlog>>

RequeueSeqReused(seq, meta_next_seq) == seq

\* requeue_inflight writes the retry record under the key it reads from meta
RequeueSeq(seq, meta_next_seq) == meta_next_seq

requeue_inflight_copy(seq, record) ==
    /\ inflight' = inflight
    /\ pending' = Insert(pending, RequeueSeq(seq, next_seq), record)
    /\ next_seq' = next_seq + 1
    /\ seqlog' = Append(seqlog, RequeueSeq(seq, next_seq))
    /\ UNCHANGED queue_bytes

\* requeue_inflight: one write transaction takes the record out of
\* queue_inflight and puts the retry record into queue_pending
requeue_inflight(seq, record) ==
    /\ inflight' = Remove(inflight, seq)
    /\ pending' = Insert(pending, RequeueSeq(seq, next_seq), record)
    /\ next_seq' = next_seq + 1
    /\ seqlog' = Append(seqlog, RequeueSeq(seq, next_seq))
    /\ UNCHANGED queue_bytes

RetryAttemptsSame(attempts) == attempts

\* worker_loop: record.attempts.saturating_add(1)
RetryAttempts(attempts) == attempts + 1

AttemptsExhaustedLate(attempts) == attempts > MAX_ATTEMPTS

\* worker_loop's retry test after a failed send
AttemptsExhausted(attempts) == attempts >= MAX_ATTEMPTS

-----------------------------------------------------------------------------
(* DiskQueue::enqueue and the writer task *)

try_send_unbounded(channel) == TRUE

\* sender.try_send succeeds while the channel has a free slot
try_send_ok(channel) == Len(channel) < lim.write_buffer

enqueue_reply_early(channel) ==
    IF try_send_ok(channel) THEN "ok" ELSE "busy"

\* DiskQueue::enqueue after try_send: Err(503 "queue writer busy") at once
\* when the channel is full, else the caller waits for the writer's ack
enqueue_reply(channel) ==
    IF try_send_ok(channel) THEN "waiting" ELSE "busy"

\* the writer's ack: the result of enqueue_record, Ok or Err(503 "queue full")
writer_ack(current_bytes, record_len) ==
    IF EnqueueFits(current_bytes, record_len) THEN "ok" ELSE "full"

\* the status of the reply: 0 while the caller waits, 200 for Ok(())
ReplyStatus(reply) ==
    IF reply = "waiting" THEN 0 ELSE IF reply = "ok" THEN 200 ELSE 503

Enqueue(u, plen, delay) ==
    /\ calls < lim.max_calls
    /\ LET id == calls + 1
           record == [uuid |-> u, payload |-> [id |-> id, len |-> plen],
                      send_after_ms |-> now + delay, attempts |-> 0,
                      handed |-> 0]
       IN /\ calls' = id
          /\ chan' = IF try_send_ok(chan)
                     THEN Append(chan, record)
                     ELSE chan
          /\ acks' = Append(acks, enqueue_reply(chan))
    /\ UNCHANGED <<subs, pending, inflight, next_seq, queue_bytes, wk, seqlog>>
    /\ UNCHANGED <<hvars, svars, gvars>>

Writer ==
    /\ chan # <<>>
    /\ enqueue_record(Head(chan))
    /\ acks' = [acks EXCEPT ![Head(chan).payload.id] =
                    writer_ack(queue_bytes, RecordLen(Head(chan)))]
    /\ chan' = Tail(chan)
    /\ UNCHANGED <<subs, inflight, wk, calls>>
    /\ UNCHANGED <<hvars, svars, gvars>>

-----------------------------------------------------------------------------
(* worker_loop *)

WorkerClaim(w) ==
    /\ wk[w].pc = "top"
    /\ LET claimed == claim_next(now)
       IN IF claimed = None
          THEN /\ wk' = [wk EXCEPT ![w] = SleepingWorker]
               /\ UNCHANGED <<pending, inflight>>
          ELSE /\ inflight' = Insert(inflight, claimed.seq, claimed.rec)
               /\ pending' = claimed_out(pending, claimed.seq)
               /\ wk' = [wk EXCEPT ![w].pc = "fetch", ![w].seq = claimed.seq,
                                   ![w].rec = claimed.rec]
    /\ UNCHANGED <<subs, chan, next_seq, queue_bytes, calls, acks, seqlog>>
    /\ UNCHANGED <<hvars, svars, gvars>>

\* the sleep after Ok(None) is over: back to the top of the loop
WorkerWake(w) ==
    /\ wk[w].pc = "sleep"
    /\ wk' = [wk EXCEPT ![w] = IdleWorker]
    /\ UNCHANGED <<subs, chan, pending, inflight, next_seq, queue_bytes,
                   calls, acks, seqlog>>
    /\ UNCHANGED <<hvars, svars, gvars>>

\* db_get on the subscriptions table: is there a row for uuid
db_get(table, uuid) == uuid \in table

hook_lookup_open(table, uuid) == 0

\* hook's lookup: an unknown uuid is answered 404 "subscription not found"
hook_lookup_status(table, uuid) == IF db_get(table, uuid) THEN 0 ELSE 404

WorkerFetch(w) ==
    /\ wk[w].pc = "fetch"
    /\ wk' = IF db_get(subs, wk[w].rec.uuid)
             THEN [wk EXCEPT ![w].pc = "send"]
             ELSE [wk EXCEPT ![w].pc = "resolve", ![w].result = "absent"]
    /\ UNCHANGED <<subs, chan, pending, inflight, next_seq, queue_bytes,
                   calls, acks, seqlog>>
    /\ UNCHANGED <<hvars, svars, gvars>>

\* History kept with the record: how often it was handed to send_push.
\* It is no part of the encoded record.
Handed(rec) == [rec EXCEPT !.handed = Min(@ + 1, MAX_ATTEMPTS + 1)]

SendOutcomes == {"ok", "gone", "too_large", "failed"}

\* send_push: only endpoint-not-found / endpoint-not-valid deletes the row
send_push_subs(uuid, outcome) ==
    IF outcome = "gone" THEN subs \ {uuid} ELSE subs

WorkerSend(w, outcome) ==
    /\ wk[w].pc = "send"
    /\ subs' = send_push_subs(wk[w].rec.uuid, outcome)
    /\ wk' = [wk EXCEPT ![w].pc = "resolve", ![w].result = outcome,
                        ![w].rec = Handed(@)]
    /\ inflight' = [inflight EXCEPT ![wk[w].seq] = Handed(@)]
    /\ UNCHANGED <<chan, pending, next_seq, queue_bytes, calls, acks, seqlog>>
    /\ UNCHANGED <<hvars, svars, gvars>>

DropsWhenSent(result) == result = "ok"

\* worker_loop drops the record without a retry when db_get found no
\* subscription and when send_result.is_ok()
DropsAtOnce(result) == result \in {"absent", "ok"}

WorkerResolve(w) ==
    /\ wk[w].pc = "resolve"
    /\ LET record == wk[w].rec
           attempts == RetryAttempts(record.attempts)
           retry_record == [record EXCEPT !.attempts = attempts,
                                          !.send_after_ms = now + RETRY_DELAY_MS]
       IN IF DropsAtOnce(wk[w].result)
          THEN drop_inflight(wk[w].seq)
          ELSE IF AttemptsExhausted(attempts)
          THEN drop_inflight(wk[w].seq)
          ELSE requeue_inflight(wk[w].seq, retry_record)
    /\ wk' = [wk EXCEPT ![w] = IdleWorker]
    /\ UNCHANGED <<subs, chan, calls, acks>>
    /\ UNCHANGED <<hvars, svars, gvars>>

-----------------------------------------------------------------------------
(* Environment: unsubscribe and the clock *)

\* subscribe stores a fresh delete_token with each subscription
DeleteToken(uuid) == IF uuid = "u1" THEN "k1" ELSE "k2"

\* the x-delete-token header of a request; a missing header reads as ""
Tokens == {"", "k1", "k2"}

unsubscribe_status_by_uuid(table, uuid, provided) ==
    IF provided = "" THEN 401
    ELSE IF uuid \notin table THEN 404
    ELSE 204

\* unsubscribe's answer: 401 without a token, 404 for an unknown uuid, 403
\* for a token that is not the stored one, 204 after the delete
unsubscribe_status(table, uuid, provided) ==
    IF provided = "" THEN 401
    ELSE IF uuid \notin table THEN 404
    ELSE IF DeleteToken(uuid) # provided THEN 403
    ELSE 204

Unsubscribe(u, provided) ==
    LET status == unsubscribe_status(subs, u, provided)
    IN /\ subs' = IF status = 204 THEN subs \ {u} ELSE subs
       /\ resp' = [status |-> status, uuid |-> u, provided |-> provided]
       /\ UNCHANGED <<chan, pending, inflight, next_seq, queue_bytes, wk,
                      calls, acks, seqlog>>
       /\ UNCHANGED <<hvars, svars, recent>>

\* The clock origin is kept at the current instant: a tick of TickMs moves
\* every stored timestamp TickMs towards the past, and a timestamp that has
\* been reached stays at the origin (it is ready whatever its age).
Age(rec) == [rec EXCEPT !.send_after_ms = Max(@ - TickMs, now)]

AgeTable(table) == [k \in DOMAIN table |-> Age(table[k])]

Waiting ==
    \/ \E s \in DOMAIN pending : pending[s].send_after_ms > now
    \/ \E i \in 1..Len(chan) : chan[i].send_after_ms > now

Tick ==
    /\ Waiting
    /\ pending' = AgeTable(pending)
    /\ inflight' = AgeTable(inflight)
    /\ chan' = [i \in 1..Len(chan) |-> Age(chan[i])]
    /\ wk' = [w \in Workers |->
                 IF wk[w].rec = None THEN wk[w]
                 ELSE [wk[w] EXCEPT !.rec = Age(@)]]
    /\ UNCHANGED <<subs, next_seq, queue_bytes, calls, acks, seqlog>>
    /\ UNCHANGED <<hvars, svars, gvars>>

\* The same clock in steps of CHUNK_DELAY_MS, with the timestamps of the last
\* step kept apart from those reached just now.
Elapse(rec) ==
    [rec EXCEPT !.send_after_ms = Max(@ - CHUNK_DELAY_MS, now - CHUNK_DELAY_MS)]

ChunkDelayPasses ==
    /\ Waiting
    /\ pending' = [k \in DOMAIN pending |-> Elapse(pending[k])]
    /\ inflight' = [k \in DOMAIN inflight |-> Elapse(inflight[k])]
    /\ chan' = [i \in 1..Len(chan) |-> Elapse(chan[i])]
    /\ wk' = [w \in Workers |->
                 IF wk[w].rec = None THEN wk[w]
                 ELSE [wk[w] EXCEPT !.rec = Elapse(@)]]
    /\ UNCHANGED <<subs, next_seq, queue_bytes, calls, acks, seqlog>>
    /\ UNCHANGED <<hvars, svars, gvars>>

-----------------------------------------------------------------------------
(* init_queue_db and the life of the process *)

\* no worker task exists: the process is not running
DownWorker == [IdleWorker EXCEPT !.pc = "down"]

Down == \A w \in Workers : wk[w].pc = "down"

\* meta.get(key)?.is_none(): the file has no entry under the key
Missing == -1

init_queue_db_recovering(db) ==
    [pending |-> [s \in DOMAIN db.pending \cup DOMAIN db.inflight |->
                     IF s \in DOMAIN db.inflight THEN db.inflight[s]
                     ELSE db.pending[s]],
     inflight |-> [s \in {} |-> None],
     next_seq |-> IF db.next_seq = Missing THEN 0 ELSE db.next_seq,
     queue_bytes |-> IF db.queue_bytes = Missing THEN 0 ELSE db.queue_bytes]

\* init_queue_db: the tables are opened, and a meta key that has no entry
\* gets the entry 0
init_queue_db(db) ==
    [pending |-> db.pending,
     inflight |-> db.inflight,
     next_seq |-> IF db.next_seq = Missing THEN 0 ELSE db.next_seq,
     queue_bytes |-> IF db.queue_bytes = Missing THEN 0 ELSE db.queue_bytes]

\* main: init_queue_db, then DiskQueue::new spawns the writer and the workers
Start ==
    /\ Down
    /\ LET db == init_queue_db([pending |-> pending, inflight |-> inflight,
                                next_seq |-> next_seq,
                                queue_bytes |-> queue_bytes])
       IN /\ pending' = db.pending
          /\ inflight' = db.inflight
          /\ next_seq' = db.next_seq
          /\ queue_bytes' = db.queue_bytes
    /\ wk' = [w \in Workers |-> IdleWorker]
    /\ UNCHANGED <<subs, chan, calls, acks, seqlog>>
    /\ UNCHANGED <<hvars, svars, gvars>>

\* the process exits or is killed: its tasks and the channel are gone, the
\* committed tables and meta entries stay in the file
Crash ==
    /\ ~Down
    /\ lim.exits < MaxExits
    /\ lim' = [lim EXCEPT !.exits = @ + 1]
    /\ wk' = [w \in Workers |-> DownWorker]
    /\ chan' = <<>>
    /\ UNCHANGED <<subs, pending, inflight, next_seq, queue_bytes, calls,
                   acks, seqlog>>
    /\ UNCHANGED <<hvars, gvars, sz, codec, sb>>

\* a record that no enqueue call of the run has written
ForeignRecord ==
    [uuid |-> "u1", payload |-> [id |-> 0, len |-> 1], send_after_ms |-> now,
     attempts |-> 0, handed |-> 0]

\* the file at the queue's path when the process starts: a new file, and a
\* file that holds a pending record and no entry for queue_bytes
NewFile ==
    [pending |-> EmptyTable, inflight |-> EmptyTable,
     next_seq |-> Missing, queue_bytes |-> Missing]

QueueFiles ==
    { NewFile,
      [pending |-> [s \in {0} |-> ForeignRecord], inflight |-> EmptyTable,
       next_seq |-> 1, queue_bytes |-> Missing] }

-----------------------------------------------------------------------------
(* hook's loop as the queue sees it: the chunks of one request *)

DispatchChunks == 3    \* chunks of the request

\* the copies of the record of enqueue call id that are in the channel or in
\* a table
Stored(id) ==
    {chan[i] : i \in {j \in 1..Len(chan) : chan[j].payload.id = id}}
        \cup {pending[s] : s \in {t \in DOMAIN pending : pending[t].payload.id = id}}
        \cup {inflight[s] : s \in {t \in DOMAIN inflight : inflight[t].payload.id = id}}

\* next_send_at, measured from the current instant: Instant::now() for the
\* first chunk and delay after the chunk before for every other one.  Of a
\* chunk that has left the queue only this is known: its time had come.
NextSendAt ==
    IF calls = 0 THEN {now}
    ELSE IF Stored(calls) = {} THEN {now, now + CHUNK_DELAY_MS}
    ELSE {Max(rec.send_after_ms + CHUNK_DELAY_MS, now) : rec \in Stored(calls)}

\* enqueue_chunk for the next chunk; the ? after it ends the request at the
\* first chunk that is refused
EnqueueChunk(send_after) ==
    /\ \A i \in 1..calls : acks[i] = "ok"
    /\ send_after \in NextSendAt
    /\ Enqueue("u1", 1, send_after - now)

-----------------------------------------------------------------------------
(* The envelope encoding of handlers.rs *)

NoSizing == [phase |-> "none"]

\* Option<usize>: None and Some(n)
Absent == <<>>

Some(n) == <<n>>

\* base64::encode, standard alphabet with padding.  A character is written
\* as the index of its sextet in the alphabet, Pad is '='.
Pad == 64

\* the last group of fewer than three bytes
Base64Tail(bytes) ==
    IF Len(bytes) = 1
    THEN <<bytes[1] \div 4, (bytes[1] % 4) * 16, Pad, Pad>>
    ELSE <<bytes[1] \div 4, (bytes[1] % 4) * 16 + bytes[2] \div 16,
           (bytes[2] % 16) * 4, Pad>>

RECURSIVE base64_encode(_)
base64_encode(bytes) ==
    IF Len(bytes) = 0 THEN <<>>
    ELSE IF Len(bytes) < 3 THEN Base64Tail(bytes)
    ELSE <<bytes[1] \div 4,
           (bytes[1] % 4) * 16 + bytes[2] \div 16,
           (bytes[2] % 16) * 4 + bytes[3] \div 64,
           bytes[3] % 64>> \o base64_encode(SubSeq(bytes, 4, Len(bytes)))

\* The reader's side of base64: four characters give up to three bytes
RECURSIVE Base64Decode(_)
Base64Decode(chars) ==
    IF Len(chars) < 4 THEN <<>>
    ELSE LET b1 == chars[1] * 4 + chars[2] \div 16
             b2 == (chars[2] % 16) * 16 + chars[3] \div 4
             b3 == (chars[3] % 4) * 64 + chars[4]
             group == IF chars[3] = Pad THEN <<b1>>
                      ELSE IF chars[4] = Pad THEN <<b1, b2>>
                      ELSE <<b1, b2, b3>>
         IN group \o Base64Decode(SubSeq(chars, 5, Len(chars)))

\* length of base64_encode's output for n bytes
Base64Len(n) == 4 * ((n + 2) \div 3)

\* (len as u32).to_be_bytes(); the cast loses nothing, hook has rejected a
\* length above u32::MAX
to_be_bytes(n) ==
    <<(n \div 16777216) % 256, (n \div 65536) % 256, (n \div 256) % 256,
      n % 256>>

\* b"WHP1"
Magic == <<87, 72, 80, 49>>

PrefixBare(meta_bytes) == Magic \o meta_bytes

\* hook's prefix: magic, big-endian length of the metadata, the metadata
Prefix(meta_bytes) == Magic \o to_be_bytes(Len(meta_bytes)) \o meta_bytes

RECURSIVE DecimalDigits(_)
DecimalDigits(n) == IF n < 10 THEN 1 ELSE 1 + DecimalDigits(n \div 10)

\* Uuid::new_v4().to_string(): 32 hex digits and 4 hyphens
RequestIdLen == 36

\* serde_json::to_vec(&ChunkEnvelope).len(): the fields in declaration order,
\* None written as null, no escapes in a uuid or in base64
envelope_json_len(request_id_len, chunk_index, total_chunks, is_last, data_len) ==
    Len("{\"request_id\":\"") + request_id_len
    + Len("\",\"chunk_index\":") + DecimalDigits(chunk_index)
    + Len(",\"total_chunks\":")
    + (IF total_chunks = Absent THEN Len("null")
       ELSE DecimalDigits(total_chunks[1]))
    + Len(",\"is_last\":") + (IF is_last THEN Len("true") ELSE Len("false"))
    + Len(",\"data\":\"") + data_len + Len("\"}")

envelope_overhead_bytes(request_id_len, chunk_index, total_chunks, is_last) ==
    envelope_json_len(request_id_len, chunk_index, total_chunks, is_last, 0)

MAX_ENVELOPE_BYTES == 3000

RECURSIVE ShrinkToFit(_, _)
\* max_chunk_data_bytes' loop: while 4 * ((max_raw + 2) / 3) > available
ShrinkToFit(max_raw, available) ==
    IF Base64Len(max_raw) > available
    THEN ShrinkToFit(Max(max_raw - 1, 0), available)
    ELSE max_raw

MaxRawUnencoded(available) == available

\* max_chunk_data_bytes: the raw bytes whose base64 fits in available
MaxRaw(available) == ShrinkToFit((available \div 4) * 3, available)

\* max_chunk_data_bytes: status 0 is Ok(chunk_size), otherwise the Err status
max_chunk_data_bytes(configured, overhead) ==
    IF overhead >= MAX_ENVELOPE_BYTES
    THEN [status |-> 413, chunk_size |-> 0,
          message |-> "chunk overhead exceeds push limit"]
    ELSE LET available == MAX_ENVELOPE_BYTES - overhead
             chunk_size == Min(configured, MaxRaw(available))
         IN IF chunk_size = 0
            THEN [status |-> 413, chunk_size |-> 0,
                  message |-> "chunk size too small"]
            ELSE [status |-> 0, chunk_size |-> chunk_size, message |-> ""]

resolve_chunk_size(request_id_len, configured, max_total_bytes) ==
    LET worst_index == Max(max_total_bytes, 1)
        overhead == envelope_overhead_bytes(request_id_len, worst_index,
                                            Some(worst_index), TRUE)
    IN max_chunk_data_bytes(configured, overhead)

-----------------------------------------------------------------------------
(* RateLimiter *)

NoResponse == [status |-> 0, uuid |-> "", provided |-> ""]

RateLimitPerMinute == 1   \* cfg.rate_limit_per_minute, scaled

\* Duration::from_secs(60)
WINDOW_SECS == 60

\* a RateEntry: window_start is kept as the time since it, age, which stops
\* counting at WINDOW_SECS (allow only asks whether it has got that far)
NoEntry == [present |-> FALSE, age |-> 0, count |-> 0]

RateWindowEarly(entry) ==
    IF ~entry.present \/ entry.age >= WINDOW_SECS \div 2
    THEN [present |-> TRUE, age |-> 0, count |-> 0]
    ELSE entry

\* allow: the entry after or_insert and after the reset of a window that is
\* 60 s old
RateWindow(entry) ==
    IF ~entry.present \/ entry.age >= WINDOW_SECS
    THEN [present |-> TRUE, age |-> 0, count |-> 0]
    ELSE entry

allow_within(limit, entry) == limit = 0 \/ RateWindow(entry).count <= limit

\* allow's answer
allow(limit, entry) == limit = 0 \/ RateWindow(entry).count < limit

allow_entry_counted(limit, entry) ==
    IF RateWindow(entry).count >= limit /\ limit # 0 THEN RateWindow(entry)
    ELSE [RateWindow(entry) EXCEPT !.count = @ + 1]

\* allow's effect on the entry of the key
allow_entry(limit, entry) ==
    IF limit = 0 THEN entry
    ELSE IF RateWindow(entry).count >= limit THEN RateWindow(entry)
    ELSE [RateWindow(entry) EXCEPT !.count = @ + 1]

\* History: the call of allow by id, with its answer, joins the calls of
\* the last 60 s
Logged(log, id, limit, entry) ==
    Append(log, [id |-> id, age |-> 0, granted |-> allow(limit, entry)])

RECURSIVE AgedLog(_, _)
\* a call leaves the history when it is 60 s old
AgedLog(log, secs) ==
    IF log = <<>> THEN <<>>
    ELSE IF Head(log).age + secs >= WINDOW_SECS THEN AgedLog(Tail(log), secs)
    ELSE <<[Head(log) EXCEPT !.age = @ + secs]>> \o AgedLog(Tail(log), secs)

\* something is left that the passing of time changes
TimeMatters ==
    \/ \E u \in UUIDS : rate[u].present /\ rate[u].age < WINDOW_SECS
    \/ \E u \in UUIDS : recent[u] # <<>>

\* the limiter's map secs seconds later
AgedRate(secs) ==
    [u \in UUIDS |->
        IF rate[u].present
        THEN [rate[u] EXCEPT !.age = Min(@ + secs, WINDOW_SECS)]
        ELSE rate[u]]

\* 60 s go by: every window that is open has run out
MinutePasses ==
    /\ TimeMatters
    /\ rate' = AgedRate(WINDOW_SECS)
    /\ recent' = [u \in UUIDS |-> AgedLog(recent[u], WINDOW_SECS)]
    /\ UNCHANGED <<cfg, hk, envs, resp, qvars, svars>>

\* 30 s go by
HalfMinutePasses ==
    /\ TimeMatters
    /\ rate' = AgedRate(WINDOW_SECS \div 2)
    /\ recent' = [u \in UUIDS |-> AgedLog(recent[u], WINDOW_SECS \div 2)]
    /\ UNCHANGED <<cfg, hk, envs, resp, qvars, svars>>

MaxRecent == 4   \* allow calls per uuid within 60 s

\* a call of allow(uuid) by any caller
Allow(u) ==
    /\ Len(recent[u]) < MaxRecent
    /\ rate' = [rate EXCEPT ![u] = allow_entry(cfg.rate_limit_per_minute, @)]
    /\ recent' = [recent EXCEPT ![u] =
                      Logged(@, "call", cfg.rate_limit_per_minute, rate[u])]
    /\ UNCHANGED <<cfg, hk, envs, resp, qvars, svars>>

-----------------------------------------------------------------------------
(* hook: the streaming chunker *)

\* the request ids stand for two values of Uuid::new_v4()
Requests == {"r1", "r2"}

\* serde_json::to_vec(&meta): two metadata documents of different length
Metas == {<<123, 125>>, <<123, 34, 34, 125>>}

\* request bodies; the bytes differ so that order and repetition show
Bodies == {<<>>, <<104, 105>>, <<104, 105, 33>>}

HookInputs == [uuid : UUIDS, meta : Metas, body : Bodies, has_length : BOOLEAN]

HookConfigs ==
    [chunk_data_bytes : {3, 12}, max_payload_bytes : {2, 4},
     rate_limit_per_minute : {RateLimitPerMinute}]

\* Config::from_env's defaults
DefaultConfig ==
    [chunk_data_bytes |-> 2400, max_payload_bytes |-> 102400,
     rate_limit_per_minute |-> 60]

TryEnqueueOutcomes == {"ok", "unavailable"}

NewRequest ==
    [pc |-> "new", uuid |-> "", meta |-> <<>>, body |-> <<>>, rest |-> <<>>,
     buffer |-> <<>>, chunk_index |-> 0, total_body_bytes |-> 0,
     max_body_bytes |-> 0, chunk_size |-> 0, status |-> 0, reads |-> 0,
     next_send_at |-> 0]

\* the handler returns: its locals are dropped
Returned(h, status) ==
    [h EXCEPT !.pc = "done", !.status = status, !.rest = <<>>,
              !.buffer = <<>>, !.total_body_bytes = 0, !.next_send_at = 0]

\* enqueue_chunk's envelope
ChunkEnvelope(request_id, chunk_index, is_last, total_chunks, chunk) ==
    [request_id |-> request_id, chunk_index |-> chunk_index,
     total_chunks |-> total_chunks, is_last |-> is_last,
     data |-> base64_encode(chunk)]

\* what try_enqueue is given: the envelope and send_after, the latter
\* measured from the Instant::now() that next_send_at starts with
Submitted(envelope, send_after) ==
    [request_id |-> envelope.request_id,
     chunk_index |-> envelope.chunk_index,
     total_chunks |-> envelope.total_chunks,
     is_last |-> envelope.is_last,
     data |-> envelope.data,
     send_after |-> send_after]

NextSendAtSame(next_send_at, delay) == next_send_at

\* next_send_at += delay
NextSendAtLater(next_send_at, delay) == next_send_at + delay

NextIndexSame(chunk_index) == chunk_index

\* chunk_index += 1
NextIndex(chunk_index) == chunk_index + 1

ChunkReadyStrict(buffer, chunk_size) == Len(buffer) > chunk_size

\* while buffer.len() >= chunk_size
ChunkReady(buffer, chunk_size) == Len(buffer) >= chunk_size

DrainedShort(buffer, n) == SubSeq(buffer, n, Len(buffer))

\* what buffer.drain(..n) leaves in the buffer
Drained(buffer, n) == SubSeq(buffer, n + 1, Len(buffer))

\* hook up to the first pass of its loop: lookup, rate limit, metadata and
\* Content-Length checks, prefix, chunk size.  (meta_bytes.len() > u32::MAX
\* is out of reach of the metadata explored.)
HookBegin(r, in) ==
    /\ hk[r].pc = "new"
    /\ LET h == [hk[r] EXCEPT !.uuid = in.uuid, !.meta = in.meta,
                              !.body = in.body]
           max_body_bytes == cfg.max_payload_bytes - Len(in.meta)
           resolved == resolve_chunk_size(
                           RequestIdLen, cfg.chunk_data_bytes,
                           Len(Prefix(in.meta)) + max_body_bytes)
       IN IF hook_lookup_status(subs, in.uuid) = 404
          THEN /\ hk' = [hk EXCEPT ![r] = Returned(h, 404)]
               /\ UNCHANGED <<rate, recent>>
          ELSE /\ rate' = [rate EXCEPT ![in.uuid] =
                              allow_entry(cfg.rate_limit_per_minute, @)]
               /\ recent' = [recent EXCEPT ![in.uuid] =
                                Logged(@, r, cfg.rate_limit_per_minute,
                                       rate[in.uuid])]
               /\ hk' = [hk EXCEPT ![r] =
                    IF ~allow(cfg.rate_limit_per_minute, rate[in.uuid])
                    THEN Returned(h, 429)
                    ELSE IF Len(in.meta) > cfg.max_payload_bytes
                    THEN Returned(h, 413)
                    ELSE IF in.has_length /\ Len(in.body) > max_body_bytes
                    THEN Returned(h, 413)
                    ELSE IF resolved.status # 0
                    THEN Returned(h, resolved.status)
                    ELSE [h EXCEPT !.pc = "loop", !.rest = in.body,
                                   !.buffer = Prefix(in.meta),
                                   !.max_body_bytes = max_body_bytes,
                                   !.chunk_size = resolved.chunk_size]]
    /\ UNCHANGED <<cfg, envs, resp, qvars, svars>>

\* one pass of while buffer.len() >= chunk_size
HookChunk(r, outcome) ==
    /\ hk[r].pc = "loop"
    /\ ChunkReady(hk[r].buffer, hk[r].chunk_size)
    /\ LET chunk == SubSeq(hk[r].buffer, 1, hk[r].chunk_size)
           chunk_index == NextIndex(hk[r].chunk_index)
       IN IF outcome = "ok"
          THEN /\ envs' = [envs EXCEPT ![r] =
                              Append(@, Submitted(
                                  ChunkEnvelope(r, chunk_index, FALSE,
                                                Absent, chunk),
                                  hk[r].next_send_at))]
               /\ hk' = [hk EXCEPT ![r].chunk_index = chunk_index,
                                   ![r].buffer =
                                       Drained(@, hk[r].chunk_size),
                                   ![r].next_send_at =
                                       NextSendAtLater(@, CHUNK_DELAY_MS)]
          ELSE /\ hk' = [hk EXCEPT ![r] = Returned(@, 503)]
               /\ UNCHANGED envs
    /\ UNCHANGED <<cfg, rate, qvars, svars, gvars>>

OverLimitAt(total_body_bytes, max_body_bytes) ==
    total_body_bytes >= max_body_bytes

\* if total_body_bytes > max_body_bytes
OverLimit(total_body_bytes, max_body_bytes) ==
    total_body_bytes > max_body_bytes

\* the handler's locals after stream.next() has yielded n bytes
AfterRead(h, n) ==
    LET total_body_bytes == h.total_body_bytes + n
    IN IF OverLimit(total_body_bytes, h.max_body_bytes)
       THEN Returned(h, 413)
       ELSE [h EXCEPT !.total_body_bytes = total_body_bytes,
                      !.reads = @ + 1,
                      !.buffer = @ \o SubSeq(h.rest, 1, n),
                      !.rest = SubSeq(@, n + 1, Len(@))]

\* stream.next() yields the next n bytes of the body
HookRead(r) ==
    /\ hk[r].pc = "loop"
    /\ ~ChunkReady(hk[r].buffer, hk[r].chunk_size)
    /\ \E n \in 1..Len(hk[r].rest) : hk' = [hk EXCEPT ![r] = AfterRead(@, n)]
    /\ UNCHANGED <<cfg, envs, rate, qvars, svars, gvars>>

\* the stream yields an error (400), or the deadline has passed (408)
HookReadFails(r, status) ==
    /\ hk[r].pc = "loop"
    /\ ~ChunkReady(hk[r].buffer, hk[r].chunk_size)
    /\ hk' = [hk EXCEPT ![r] = Returned(@, status)]
    /\ UNCHANGED <<cfg, envs, rate, qvars, svars, gvars>>

finish_status_accepted(enqueued) == 202

\* the end of hook: the ? after the last enqueue_chunk passes its error on,
\* Ok(StatusCode::ACCEPTED) follows it
finish_status(enqueued) == IF enqueued THEN 202 ELSE 503

\* the stream has ended: the rest of the buffer goes out as the last chunk
HookFinish(r, outcome) ==
    /\ hk[r].pc = "loop"
    /\ ~ChunkReady(hk[r].buffer, hk[r].chunk_size)
    /\ hk[r].rest = <<>>
    /\ LET chunk_index == NextIndex(hk[r].chunk_index)
       IN IF outcome = "ok"
          THEN /\ envs' = [envs EXCEPT ![r] =
                              Append(@, Submitted(
                                  ChunkEnvelope(r, chunk_index, TRUE,
                                                Some(chunk_index),
                                                hk[r].buffer),
                                  hk[r].next_send_at))]
               /\ hk' = [hk EXCEPT ![r] =
                            Returned([@ EXCEPT !.chunk_index = chunk_index],
                                     finish_status(TRUE))]
          ELSE /\ hk' = [hk EXCEPT ![r] = Returned(@, finish_status(FALSE))]
               /\ UNCHANGED envs
    /\ UNCHANGED <<cfg, rate, qvars, svars, gvars>>

-----------------------------------------------------------------------------
(* The envelopes of one request, by size *)

\* hook: prefix.len().saturating_add(max_body_bytes); the sum stays far
\* below usize::MAX for the configurations explored
max_total_bytes(meta_len, max_payload_bytes) ==
    (Len(Magic) + 4 + meta_len) + (max_payload_bytes - meta_len)

\* hook's loop over a stream of total_len bytes (prefix and body): a chunk
\* leaves the buffer whenever chunk_size bytes are there, and what is left
\* at the end of the stream, nothing included, is the last chunk
chunk_count(total_len, chunk_size) == total_len \div chunk_size + 1

chunk_len(total_len, chunk_size, chunk_index) ==
    IF chunk_index < chunk_count(total_len, chunk_size)
    THEN chunk_size
    ELSE total_len % chunk_size

\* serde_json::to_vec(&envelope).len() of the envelope enqueue_chunk builds
\* for the chunk of this index
envelope_bytes_len(total_len, chunk_size, chunk_index) ==
    LET is_last == chunk_index = chunk_count(total_len, chunk_size)
    IN envelope_json_len(
           RequestIdLen, chunk_index,
           IF is_last THEN Some(chunk_index) ELSE Absent, is_last,
           Base64Len(chunk_len(total_len, chunk_size, chunk_index)))

\* CHUNK_DATA_BYTES and MAX_PAYLOAD_BYTES: small values, the values around
\* the largest chunk that fits, and payload limits that put
\* max_total_bytes on either side of a power of ten
SizeConfigs ==
    [chunk_data_bytes : {1, 2, 9, 100, 2156, 2157, 2160, 2163, 2400, 4000},
     max_payload_bytes : {1, 2, 91, 92, 991, 992, 9991, 9992, 99991, 99992,
                          102400, 999991, 999992, 10000000},
     rate_limit_per_minute : {60}]

SizeMetaLens(max_payload_bytes) ==
    {Min(max_payload_bytes, 2), Min(max_payload_bytes, 300)}

\* lengths of the body within the limit: none, one byte, the limit, and
\* lengths that end the stream on or next to a chunk boundary
SizeBodyLens(config, meta_len) ==
    LET max_body_bytes == config.max_payload_bytes - meta_len
        prefix_len == Len(Magic) + 4 + meta_len
        c == Min(config.chunk_data_bytes, 2160)
        last_boundary == ((prefix_len + max_body_bytes) \div c) * c
    IN {n \in {0, 1, max_body_bytes - 1, max_body_bytes,
               c - prefix_len, 2 * c - prefix_len - 1, 2 * c - prefix_len,
               10 * c - prefix_len, last_boundary - prefix_len,
               last_boundary - prefix_len - 1} :
            0 <= n /\ n <= max_body_bytes}

SizeInputs(config) ==
    UNION {[phase : {"input"}, meta_len : {m}, body_len : SizeBodyLens(config, m),
            chunk_size : {0}, chunk_index : {0}, size : {0}] :
               m \in SizeMetaLens(config.max_payload_bytes)}

\* indices on either side of every change in the number of digits, and the
\* last two
SizeIndices(count) ==
    {k \in {1, 2, 9, 10, 99, 100, 999, 1000, 9999, 10000, 99999, 100000,
            999999, 1000000, 9999999, 10000000, count - 1, count} :
        1 <= k /\ k <= count}

\* arguments of max_chunk_data_bytes: chunk sizes from none to more than fits,
\* overheads that leave all, little and nothing of the 3000 bytes
ChunkLimitInputs ==
    [phase : {"limits"},
     configured : {0, 1, 2, 3, 4, 2156, 2157, 2160, 2250, 4000},
     overhead : {0, 1, 120, 124, 2987, 2988, 2992, 2995, 2996, 2997, 2999,
                 3000, 3001, 5000}]

\* max_chunk_data_bytes is applied to the arguments
SizeLimit ==
    /\ sz.phase = "limits"
    /\ sz' = [phase |-> "limited", configured |-> sz.configured,
              overhead |-> sz.overhead,
              result |-> max_chunk_data_bytes(sz.configured, sz.overhead)]
    /\ UNCHANGED <<cfg, hk, envs, rate, codec, lim, sb, qvars, gvars>>

\* hook resolves the chunk size of the request
SizeResolve ==
    /\ sz.phase = "input"
    /\ LET resolved == resolve_chunk_size(
                           RequestIdLen, cfg.chunk_data_bytes,
                           max_total_bytes(sz.meta_len, cfg.max_payload_bytes))
       IN sz' = IF resolved.status # 0
                THEN [sz EXCEPT !.phase = "rejected"]
                ELSE [sz EXCEPT !.phase = "resolved",
                                !.chunk_size = resolved.chunk_size]
    /\ UNCHANGED <<cfg, hk, envs, rate, codec, lim, sb, qvars, gvars>>

\* enqueue_chunk serialises the envelope of one of the indices
SizeEmit ==
    /\ sz.phase = "resolved"
    /\ LET total_len == Len(Magic) + 4 + sz.meta_len + sz.body_len
       IN \E k \in SizeIndices(chunk_count(total_len, sz.chunk_size)) :
              sz' = [sz EXCEPT !.phase = "emitted", !.chunk_index = k,
                               !.size = envelope_bytes_len(total_len,
                                                           sz.chunk_size, k)]
    /\ UNCHANGED <<cfg, hk, envs, rate, codec, lim, sb, qvars, gvars>>

-----------------------------------------------------------------------------
(* queue.rs: the stored form of a QueueRecord *)

NoCodec == [phase |-> "none"]

Ok(v) == [ok |-> TRUE, value |-> v]
Err(status) == [ok |-> FALSE, status |-> status]

\* the big-endian value of a byte string, unsigned
RECURSIVE BeValue(_)
BeValue(bytes) ==
    IF bytes = <<>> THEN 0
    ELSE BeValue(SubSeq(bytes, 1, Len(bytes) - 1)) * 256 + bytes[Len(bytes)]

\* the upper four bytes of an i64 whose value fits 32 bits: its sign
SignBytes(v) == IF v < 0 THEN <<255, 255, 255, 255>> ELSE <<0, 0, 0, 0>>

\* i64::to_be_bytes, two's complement
i64_to_be_bytes(v) == SignBytes(v) \o to_be_bytes(v)

i64_from_be_bytes_unsigned(bytes) ==
    IF bytes[1] >= 128
    THEN BeValue([i \in 1..Len(bytes) |-> 255 - bytes[i]]) + 1
    ELSE BeValue(bytes)

\* i64::from_be_bytes, two's complement
i64_from_be_bytes(bytes) ==
    IF bytes[1] >= 128
    THEN 0 - BeValue([i \in 1..Len(bytes) |-> 255 - bytes[i]]) - 1
    ELSE BeValue(bytes)

\* u8::try_from(uuid_bytes.len()) succeeds
U8Max == 255
FitsU8(n) == n <= U8Max

\* String::from_utf8 on characters of one and two bytes: a byte is ASCII, or
\* a lead byte in front of a continuation byte, or a continuation byte
\* behind a lead byte
Utf8(bytes) ==
    \A i \in 1..Len(bytes) :
        \/ bytes[i] < 128
        \/ bytes[i] \in 194..223 /\ i < Len(bytes) /\ bytes[i + 1] \in 128..191
        \/ bytes[i] \in 128..191 /\ i > 1 /\ bytes[i - 1] \in 194..223

\* data[from..to] of Rust: the bytes at offsets from, ..., to - 1
Slice(data, from, to) == SubSeq(data, from + 1, to)

\* the payload length always fits u32 here
encode_record(record) ==
    IF ~FitsU8(Len(record.uuid)) THEN Err(500)
    ELSE Ok(<<Len(record.uuid)>> \o record.uuid
            \o i64_to_be_bytes(record.send_after_ms)
            \o to_be_bytes(record.attempts)
            \o to_be_bytes(Len(record.payload))
            \o record.payload)

decode_record(data) ==
    IF Len(data) < 1 + 8 + 4 + 4 THEN Err(500)
    ELSE LET uuid_len == data[1]
             o1 == 1
         IN IF Len(data) < o1 + uuid_len + 8 + 4 + 4 THEN Err(500)
            ELSE IF ~Utf8(Slice(data, o1, o1 + uuid_len)) THEN Err(500)
            ELSE LET o2 == o1 + uuid_len
                     send_after_ms == i64_from_be_bytes(Slice(data, o2, o2 + 8))
                     o3 == o2 + 8
                     attempts == BeValue(Slice(data, o3, o3 + 4))
                     o4 == o3 + 4
                     payload_len == BeValue(Slice(data, o4, o4 + 4))
                     o5 == o4 + 4
                 IN IF Len(data) < o5 + payload_len THEN Err(500)
                    ELSE Ok([uuid |-> Slice(data, o1, o1 + uuid_len),
                             payload |-> Slice(data, o5, o5 + payload_len),
                             send_after_ms |-> send_after_ms,
                             attempts |-> attempts])

\* uuids: empty, the 12 characters generate_uuid makes, one with a two-byte
\* character, and strings of 255 and 256 bytes
LongUuid(n) == [i \in 1..n |-> 97]
CodecUuids ==
    {<<>>, <<97, 98, 99, 100, 101, 102, 48, 49, 50, 51, 52, 53>>,
     <<117, 195, 169>>, LongUuid(U8Max), LongUuid(U8Max + 1)}
CodecPayloads == {<<>>, <<123, 125>>, <<0, 255, 128>>}
MaxI32 == 2147483647
CodecSendAfter == {0 - MaxI32, 0 - 86400000, 0 - 256, 0 - 1, 0, 1, 255, 60000, MaxI32}
CodecAttempts == {0, 1, MAX_ATTEMPTS, 256, MaxI32}
CodecRecords ==
    [uuid : CodecUuids, payload : CodecPayloads,
     send_after_ms : CodecSendAfter, attempts : CodecAttempts]

\* encode_record(record)
CodecEncode ==
    /\ codec.phase = "none"
    /\ \E record \in CodecRecords :
           codec' = [phase |-> "encoded", record |-> record,
                     encoded |-> encode_record(record)]
    /\ UNCHANGED <<sz, lim, sb, qvars, hvars, gvars>>

\* decode_record on the stored bytes, or on the bytes short of the last cut
CodecDecode ==
    /\ codec.phase = "encoded"
    /\ codec.encoded.ok
    /\ \E cut \in 0..1 :
           /\ cut <= Len(codec.encoded.value)
           /\ codec' = [phase |-> "decoded", record |-> codec.record,
                        encoded |-> codec.encoded, cut |-> cut,
                        decoded |-> decode_record(
                            SubSeq(codec.encoded.value, 1,
                                   Len(codec.encoded.value) - cut))]
    /\ UNCHANGED <<sz, lim, sb, qvars, hvars, gvars>>

-----------------------------------------------------------------------------

(* handlers.rs: subscribe and validate_subscription *)

NoSubscribe == [status |-> 0]

\* to_ascii_lowercase on the names that occur
Lower(s) ==
    IF s = "HTTPS" THEN "https"
    ELSE IF s = "FCM.GOOGLEAPIS.COM" THEN "fcm.googleapis.com"
    ELSE s

eq_ignore_ascii_case(a, b) == Lower(a) = Lower(b)

\* An endpoint is pad characters of whitespace around scheme "://" host and
\* path_len further characters; without a scheme it is host and path only.
\* parses tells whether Uri::from_str accepts the trimmed text.
EndpointLen(e) ==
    (IF e.scheme = "" THEN 0 ELSE Len(e.scheme) + 3) + Len(e.host) + e.path_len

MAX_ENDPOINT_LEN == 2048
MAX_P256DH_CHARS == 256
MAX_AUTH_CHARS == 128
P256DH_BYTES == 65
AUTH_BYTES == 16

host_allowed_listed(host, allowed_hosts) ==
    \E allowed \in allowed_hosts : eq_ignore_ascii_case(allowed, host)

\* host_allowed: an empty list and a list with "*" let every host pass
host_allowed(host, allowed_hosts) ==
    \/ allowed_hosts = {}
    \/ "*" \in allowed_hosts
    \/ host_allowed_listed(host, allowed_hosts)

\* the characters of a key: sextets 0..63 of the URL-safe alphabet, Pad for
\* '=', and Stray for a character outside the alphabet
Stray == 65

\* the last sextet of a group of two or three leaves its low bits at zero
TrailingBitsZero(chars) ==
    LET n == Len(chars)
    IN IF n % 4 = 2 THEN chars[n] % 16 = 0
       ELSE IF n % 4 = 3 THEN chars[n] % 4 = 0
       ELSE TRUE

PadTo4(chars) ==
    chars \o [i \in 1..((4 - (Len(chars) % 4)) % 4) |-> Pad]

\* decode_config(value, URL_SAFE_NO_PAD): no '=' in the input
decode_no_pad(chars) ==
    IF \E i \in 1..Len(chars) : chars[i] \notin 0..63 THEN Err(400)
    ELSE IF Len(chars) % 4 = 1 THEN Err(400)
    ELSE IF ~TrailingBitsZero(chars) THEN Err(400)
    ELSE Ok(Base64Decode(PadTo4(chars)))

\* the characters in front of the '=' at the end
Unpadded(chars) ==
    IF Len(chars) >= 2 /\ chars[Len(chars) - 1] = Pad /\ chars[Len(chars)] = Pad
    THEN SubSeq(chars, 1, Len(chars) - 2)
    ELSE IF Len(chars) >= 1 /\ chars[Len(chars)] = Pad
    THEN SubSeq(chars, 1, Len(chars) - 1)
    ELSE chars

\* decode_config(value, URL_SAFE): whole groups of four, '=' filling the last
decode_padded(chars) ==
    IF Len(chars) % 4 # 0 THEN Err(400)
    ELSE IF Len(Unpadded(chars)) % 4 = 1 THEN Err(400)
    ELSE decode_no_pad(Unpadded(chars))

\* decode_b64url: unpadded first, then padded
decode_b64url(chars) ==
    LET first == decode_no_pad(chars)
    IN IF first.ok THEN first ELSE decode_padded(chars)

DecodesToAtLeast(chars, n) ==
    LET decoded == decode_b64url(chars)
    IN decoded.ok /\ Len(decoded.value) >= n

\* decoded.len() != n is an error
DecodesTo(chars, n) ==
    LET decoded == decode_b64url(chars)
    IN decoded.ok /\ Len(decoded.value) = n

\* validate_subscription: 0 for Ok(()), else the status of the error
validate_subscription(subscription, allowed_hosts) ==
    LET endpoint == subscription.endpoint
    IN IF EndpointLen(endpoint) = 0 THEN 400
       ELSE IF EndpointLen(endpoint) > MAX_ENDPOINT_LEN THEN 400
       ELSE IF ~endpoint.parses THEN 400
       ELSE IF ~eq_ignore_ascii_case(endpoint.scheme, "https") THEN 400
       ELSE IF endpoint.host = "" THEN 400
       ELSE IF ~host_allowed(endpoint.host, allowed_hosts) THEN 400
       ELSE IF \/ Len(subscription.p256dh) > MAX_P256DH_CHARS
               \/ Len(subscription.auth) > MAX_AUTH_CHARS THEN 400
       ELSE IF ~decode_b64url(subscription.p256dh).ok THEN 400
       ELSE IF ~DecodesTo(subscription.p256dh, P256DH_BYTES) THEN 400
       ELSE IF ~decode_b64url(subscription.auth).ok THEN 400
       ELSE IF ~DecodesTo(subscription.auth, AUTH_BYTES) THEN 400
       ELSE 0

\* What the browser sends: the key of raw_len bytes in one of the forms
\* "unpadded", "padded", "stray" (a character outside the alphabet in it),
\* "cut" (the last character missing)
KeyBytes(raw_len) == [i \in 1..raw_len |-> (i * 37) % 256]

KeyText(key) ==
    LET padded == base64_encode(KeyBytes(key.raw_len))
    IN IF key.form = "padded" THEN padded
       ELSE IF key.form = "unpadded" THEN Unpadded(padded)
       ELSE IF key.form = "stray" THEN <<Stray>> \o Tail(Unpadded(padded))
       ELSE SubSeq(Unpadded(padded), 1, Len(Unpadded(padded)) - 1)

Endpoints ==
    { [pad |-> 0, scheme |-> "https", host |-> "fcm.googleapis.com",
       path_len |-> 20, parses |-> TRUE],
      [pad |-> 0, scheme |-> "http", host |-> "fcm.googleapis.com",
       path_len |-> 20, parses |-> TRUE],
      [pad |-> 0, scheme |-> "HTTPS", host |-> "FCM.GOOGLEAPIS.COM",
       path_len |-> 20, parses |-> TRUE],
      [pad |-> 0, scheme |-> "https", host |-> "evil.example",
       path_len |-> 20, parses |-> TRUE],
      [pad |-> 2, scheme |-> "https", host |-> "fcm.googleapis.com",
       path_len |-> MAX_ENDPOINT_LEN - 26, parses |-> TRUE],
      [pad |-> 0, scheme |-> "https", host |-> "fcm.googleapis.com",
       path_len |-> MAX_ENDPOINT_LEN - 25, parses |-> TRUE],
      [pad |-> 1, scheme |-> "", host |-> "", path_len |-> 0, parses |-> FALSE],
      [pad |-> 0, scheme |-> "", host |-> "", path_len |-> 9, parses |-> TRUE],
      [pad |-> 0, scheme |-> "https", host |-> "fcm.googleapis.com",
       path_len |-> 20, parses |-> FALSE] }

P256dhKeys ==
    [raw_len : {64, 65, 66}, form : {"unpadded", "padded"}]
        \cup [raw_len : {65}, form : {"stray", "cut"}]
        \cup [raw_len : {0, 195}, form : {"unpadded"}]

AuthKeys ==
    [raw_len : {15, 16, 17}, form : {"unpadded", "padded"}]
        \cup [raw_len : {16}, form : {"stray", "cut"}]
        \cup [raw_len : {99}, form : {"unpadded"}]

\* the usual request, the requests that differ from it in one field, and
\* the other spellings of a good request
UsualSubscription ==
    [endpoint |-> [pad |-> 0, scheme |-> "https", host |-> "fcm.googleapis.com",
                   path_len |-> 20, parses |-> TRUE],
     p256dh |-> [raw_len |-> 65, form |-> "unpadded"],
     auth |-> [raw_len |-> 16, form |-> "unpadded"]]

Subscriptions ==
    {[UsualSubscription EXCEPT !.endpoint = e] : e \in Endpoints}
        \cup {[UsualSubscription EXCEPT !.p256dh = k] : k \in P256dhKeys}
        \cup {[UsualSubscription EXCEPT !.auth = k] : k \in AuthKeys}
        \cup {s \in [endpoint : Endpoints, p256dh : P256dhKeys,
                      auth : AuthKeys] :
                 /\ s.endpoint.host \in {"FCM.GOOGLEAPIS.COM", "evil.example"}
                 /\ s.p256dh.raw_len \in {64, 65}
                 /\ s.auth.raw_len \in {16, 17}
                 /\ {s.p256dh.form, s.auth.form} \subseteq
                        {"unpadded", "padded"}}

\* ALLOWED_PUSH_HOSTS: two hosts, "*", and the empty list
AllowedHostLists ==
    {{"fcm.googleapis.com", "web.push.apple.com"}, {"*"}, {}}

SubscribeConfigs ==
    [chunk_data_bytes : {2400}, max_payload_bytes : {102400},
     rate_limit_per_minute : {60}, allowed_push_hosts : AllowedHostLists]

\* the subscription as validate_subscription sees it
Sent(s) ==
    [endpoint |-> s.endpoint, p256dh |-> KeyText(s.p256dh),
     auth |-> KeyText(s.auth)]

\* subscribe: validate, generate_uuid, db_put; uuid is what generate_uuid
\* draws
Subscribe(s, uuid) ==
    LET status == validate_subscription(Sent(s), cfg.allowed_push_hosts)
    IN /\ ~db_get(subs, uuid)
       /\ subs' = IF status = 0 THEN subs \cup {uuid} ELSE subs
       /\ sb' = [status |-> IF status = 0 THEN 200 ELSE status,
                 request |-> s,
                 uuid |-> IF status = 0 THEN uuid ELSE ""]
       /\ UNCHANGED <<chan, pending, inflight, next_seq, queue_bytes, wk,
                      calls, acks, seqlog>>
       /\ UNCHANGED <<hvars, gvars, sz, codec, lim>>

-----------------------------------------------------------------------------
(* subscribe step by step: generate_uuid, then db_put *)

\* concurrent calls of subscribe whose subscriptions have passed
\* validate_subscription
Callers == {"c1", "c2", "c3"}

MAX_CANDIDATES == 5

NewCaller == [pc |-> "generate", tries |-> 0, uuid |-> "", status |-> 0]

\* one pass of generate_uuid's loop: a candidate is drawn and looked up in
\* a read transaction; the fifth candidate in use ends the call with 500
GenerateUuid(c, candidate) ==
    /\ sb[c].pc = "generate"
    /\ sb' = [sb EXCEPT ![c] =
                 IF ~db_get(subs, candidate)
                 THEN [@ EXCEPT !.pc = "put", !.uuid = candidate]
                 ELSE IF @.tries + 1 = MAX_CANDIDATES
                 THEN [@ EXCEPT !.pc = "done", !.tries = @ + 1,
                                !.status = 500]
                 ELSE [@ EXCEPT !.tries = @ + 1]]
    /\ UNCHANGED qvars
    /\ UNCHANGED <<hvars, gvars, sz, codec, lim>>

\* db_put: table.insert(uuid, value) in a write transaction of its own, and
\* the answer with the uuid
DbPut(c) ==
    /\ sb[c].pc = "put"
    /\ subs' = subs \cup {sb[c].uuid}
    /\ sb' = [sb EXCEPT ![c].pc = "done", ![c].status = 200]
    /\ UNCHANGED <<chan, pending, inflight, next_seq, queue_bytes, wk,
                   calls, acks, seqlog>>
    /\ UNCHANGED <<hvars, gvars, sz, codec, lim>>

-----------------------------------------------------------------------------
\* the channel capacity and the enqueue calls of a run
QueueLimits == [write_buffer |-> WriteBufferCap, max_calls |-> MaxCalls]

QueueEmpty ==
    /\ subs = UUIDS
    /\ chan = <<>>
    /\ pending = EmptyTable
    /\ inflight = EmptyTable
    /\ next_seq = 0
    /\ queue_bytes = 0
    /\ wk = [w \in Workers |-> IdleWorker]
    /\ calls = 0
    /\ acks = <<>>
    /\ seqlog = <<>>

QueueInit ==
    /\ QueueEmpty
    /\ lim = QueueLimits

HookIdle ==
    /\ hk = [r \in Requests |-> NewRequest]
    /\ envs = [r \in Requests |-> <<>>]
    /\ rate = [u \in UUIDS |-> NoEntry]
    /\ recent = [u \in UUIDS |-> <<>>]
    /\ resp = NoResponse

Init ==
    /\ QueueInit
    /\ cfg = DefaultConfig
    /\ HookIdle
    /\ sz = NoSizing
    /\ codec = NoCodec
    /\ sb = NoSubscribe

Next ==
    \/ \E in \in EnqueueInputs : Enqueue(in.uuid, in.len, in.delay)
    \/ Writer
    \/ \E w \in Workers : WorkerClaim(w)
    \/ \E w \in Workers : WorkerWake(w)
    \/ \E w \in Workers : WorkerFetch(w)
    \/ \E w \in Workers, outcome \in SendOutcomes : WorkerSend(w, outcome)
    \/ \E w \in Workers : WorkerResolve(w)
    \/ \E u \in subs : Unsubscribe(u, DeleteToken(u))
    \/ Tick

Spec == Init /\ [][Next]_vars

WorkerStep(w) ==
    \/ WorkerClaim(w)
    \/ WorkerWake(w)
    \/ WorkerFetch(w)
    \/ \E outcome \in SendOutcomes : WorkerSend(w, outcome)
    \/ WorkerResolve(w)

\* No crash, fair workers and writer, advancing time
LiveSpec ==
    /\ Spec
    /\ WF_vars(Writer)
    /\ WF_vars(Tick)
    /\ \A w \in Workers : WF_vars(WorkerStep(w))

HookInit ==
    /\ QueueInit
    /\ cfg \in HookConfigs
    /\ HookIdle
    /\ sz = NoSizing
    /\ codec = NoCodec
    /\ sb = NoSubscribe

HookNext ==
    \/ \E r \in Requests, in \in HookInputs : HookBegin(r, in)
    \/ \E r \in Requests, outcome \in TryEnqueueOutcomes : HookChunk(r, outcome)
    \/ \E r \in Requests : HookRead(r)
    \/ \E r \in Requests, status \in {400, 408} : HookReadFails(r, status)
    \/ \E r \in Requests, outcome \in TryEnqueueOutcomes : HookFinish(r, outcome)
    \/ \E u \in subs : Unsubscribe(u, DeleteToken(u))
    \/ MinutePasses

HookSpec == HookInit /\ [][HookNext]_vars

SizeInit ==
    /\ QueueInit
    /\ cfg \in SizeConfigs
    /\ HookIdle
    /\ sz \in SizeInputs(cfg) \cup ChunkLimitInputs
    /\ codec = NoCodec
    /\ sb = NoSubscribe

SizeNext ==
    \/ SizeResolve
    \/ SizeEmit
    \/ SizeLimit

SizeSpec == SizeInit /\ [][SizeNext]_vars

CodecInit ==
    /\ QueueInit
    /\ cfg = DefaultConfig
    /\ HookIdle
    /\ sz = NoSizing
    /\ codec = NoCodec
    /\ sb = NoSubscribe

CodecNext ==
    \/ CodecEncode
    \/ CodecDecode

\* a record is encoded and the bytes are decoded
CodecSpec == CodecInit /\ [][CodecNext]_vars

OrderNext ==
    \/ \E in \in EnqueueInputs : Enqueue(in.uuid, in.len, in.delay)
    \/ Writer
    \/ \E w \in Workers : WorkerClaim(w)
    \/ \E w \in Workers : WorkerWake(w)
    \/ \E w \in Workers : WorkerFetch(w)
    \/ \E w \in Workers, outcome \in SendOutcomes : WorkerSend(w, outcome)
    \/ \E w \in Workers : WorkerResolve(w)
    \/ ChunkDelayPasses

\* the queue under a clock that tells past timestamps apart
OrderSpec == Init /\ [][OrderNext]_vars

DispatchLimits == [write_buffer |-> WriteBufferCap, max_calls |-> DispatchChunks]

DispatchInit ==
    /\ QueueEmpty
    /\ lim = DispatchLimits
    /\ cfg = DefaultConfig
    /\ HookIdle
    /\ sz = NoSizing
    /\ codec = NoCodec
    /\ sb = NoSubscribe

DispatchNext ==
    \/ \E send_after \in {now, now + CHUNK_DELAY_MS, now + 2 * CHUNK_DELAY_MS} :
           EnqueueChunk(send_after)
    \/ Writer
    \/ \E w \in Workers : WorkerClaim(w)
    \/ \E w \in Workers : WorkerWake(w)
    \/ \E w \in Workers : WorkerFetch(w)
    \/ \E w \in Workers : WorkerSend(w, "ok")
    \/ \E w \in Workers : WorkerResolve(w)
    \/ ChunkDelayPasses

\* one request's chunks on their way through the queue, every send succeeding
DispatchSpec == DispatchInit /\ [][DispatchNext]_vars

StartLimits ==
    [write_buffer |-> WriteBufferCap, max_calls |-> MaxCalls, exits |-> 0]

\* the process is about to start on the file it finds
Found(file) ==
    /\ pending = file.pending
    /\ inflight = file.inflight
    /\ next_seq = file.next_seq
    /\ queue_bytes = file.queue_bytes
    /\ subs = UUIDS
    /\ chan = <<>>
    /\ wk = [w \in Workers |-> DownWorker]
    /\ calls = 0
    /\ acks = <<>>
    /\ seqlog = <<>>
    /\ lim = StartLimits
    /\ cfg = DefaultConfig
    /\ HookIdle
    /\ sz = NoSizing
    /\ codec = NoCodec
    /\ sb = NoSubscribe

FoundInit == \E file \in QueueFiles : Found(file)

StartInit == Found(NewFile)
    /\ chan = <<>>
    /\ wk = [w \in Workers |-> DownWorker]
    /\ calls = 0
    /\ acks = <<>>
    /\ seqlog = <<>>
    /\ lim = StartLimits
    /\ cfg = DefaultConfig
    /\ HookIdle
    /\ sz = NoSizing
    /\ codec = NoCodec
    /\ sb = NoSubscribe

StartNext ==
    \/ Start
    \/ Crash
    \/ \E in \in EnqueueInputs : ~Down /\ Enqueue(in.uuid, in.len, in.delay)
    \/ Writer
    \/ \E w \in Workers : WorkerClaim(w)
    \/ \E w \in Workers : WorkerWake(w)
    \/ \E w \in Workers : WorkerFetch(w)
    \/ \E w \in Workers, outcome \in {"ok", "failed"} : WorkerSend(w, outcome)
    \/ \E w \in Workers : WorkerResolve(w)

\* the queue over the starts and exits of the process
StartSpec == StartInit /\ [][StartNext]_vars

\* the same, on a file that was there before
FoundSpec == FoundInit /\ [][StartNext]_vars

WriterLimits == [write_buffer |-> WriterBufferCap, max_calls |-> WriterCalls]

WriterInit ==
    /\ QueueEmpty
    /\ lim = WriterLimits
    /\ cfg = DefaultConfig
    /\ HookIdle
    /\ sz = NoSizing
    /\ codec = NoCodec
    /\ sb = NoSubscribe

WriterNext ==
    \/ \E in \in EnqueueInputs : Enqueue(in.uuid, in.len, in.delay)
    \/ Writer

\* the callers of DiskQueue::enqueue and the writer task, no worker running
WriterSpec == WriterInit /\ [][WriterNext]_vars

\* an empty store: nobody has subscribed yet
SubscribeInit ==
    /\ subs = {}
    /\ chan = <<>>
    /\ pending = EmptyTable
    /\ inflight = EmptyTable
    /\ next_seq = 0
    /\ queue_bytes = 0
    /\ wk = [w \in Workers |-> IdleWorker]
    /\ calls = 0
    /\ acks = <<>>
    /\ seqlog = <<>>
    /\ lim = QueueLimits
    /\ cfg \in SubscribeConfigs
    /\ HookIdle
    /\ sz = NoSizing
    /\ codec = NoCodec
    /\ sb = NoSubscribe

AllocInit ==
    /\ subs = {}
    /\ chan = <<>>
    /\ pending = EmptyTable
    /\ inflight = EmptyTable
    /\ next_seq = 0
    /\ queue_bytes = 0
    /\ wk = [w \in Workers |-> IdleWorker]
    /\ calls = 0
    /\ acks = <<>>
    /\ seqlog = <<>>
    /\ lim = QueueLimits
    /\ cfg = DefaultConfig
    /\ HookIdle
    /\ sz = NoSizing
    /\ codec = NoCodec
    /\ sb = [c \in Callers |-> NewCaller]

AllocNext ==
    \/ \E c \in Callers, candidate \in UUIDS : GenerateUuid(c, candidate)
    \/ \E c \in Callers : DbPut(c)

\* concurrent subscribe calls over an id space of two uuids
AllocSpec == AllocInit /\ [][AllocNext]_vars

SubscribeNext ==
    \/ \E s \in Subscriptions, uuid \in UUIDS : Subscribe(s, uuid)
    \/ \E u \in subs : Unsubscribe(u, DeleteToken(u))

\* subscribe and unsubscribe requests
SubscribeSpec == SubscribeInit /\ [][SubscribeNext]_vars

\* RATE_LIMIT_PER_MINUTE: unlimited, one and two calls a minute
GateConfigs ==
    [chunk_data_bytes : {2400}, max_payload_bytes : {102400},
     rate_limit_per_minute : {0, 1, 2}]

GateInit ==
    /\ QueueInit
    /\ cfg \in GateConfigs
    /\ HookIdle
    /\ sz = NoSizing
    /\ codec = NoCodec
    /\ sb = NoSubscribe

GateNext ==
    \/ \E u \in UUIDS : Allow(u)
    \/ HalfMinutePasses
    \/ \E u \in UUIDS, provided \in Tokens : Unsubscribe(u, provided)

\* the shared state in front of the handlers
GateSpec == GateInit /\ [][GateNext]_vars

-----------------------------------------------------------------------------
(* Properties of the dispatch queue *)

\* the store that try_enqueue feeds
QueueStore == <<chan, pending, inflight, next_seq, queue_bytes>>

QueueRecords ==
    {pending[s] : s \in DOMAIN pending} \cup {inflight[s] : s \in DOMAIN inflight}

\* The step in which worker w resolves the record it holds
Resolves(w) == wk[w].pc = "resolve" /\ wk'[w].pc = "top"

HeldId(w) == wk[w].rec.payload.id

\* ... by removing it from the queue
Drops(w) ==
    /\ Resolves(w)
    /\ HeldId(w) \notin PayloadIds(pending') \cup PayloadIds(inflight')

\* ... by writing it back to queue_pending
Requeues(w) == Resolves(w) /\ HeldId(w) \in PayloadIds(pending')

RequeuedRecord(w) ==
    CHOOSE r \in {pending'[s] : s \in DOMAIN pending'} : r.payload.id = HeldId(w)

\* C1: at every commit boundary queue_bytes is the sum of the encoded lengths
\* of the records in queue_pending and queue_inflight.
C1_ByteAccounting == queue_bytes = TableBytes(pending) + TableBytes(inflight)

\* Both enqueues were accepted, a record was requeued, a record was dropped
\* and the other one is claimed.
C1_Witness ==
    /\ calls = 2
    /\ next_seq >= 3
    /\ DOMAIN pending = {}
    /\ Cardinality(DOMAIN inflight) = 1
    /\ \E s \in DOMAIN inflight : inflight[s].attempts > 0

\* the payload bytes of the records of a table
RECURSIVE SumPayload(_, _)
SumPayload(table, keys) ==
    IF keys = {} THEN 0
    ELSE LET k == CHOOSE x \in keys : TRUE
         IN table[k].payload.len + SumPayload(table, keys \ {k})

PayloadBytes(table) == SumPayload(table, DOMAIN table)

\* what encode_record writes in front of the payload: the uuid length, the
\* uuid, send_after_ms, attempts and the payload length
RecordHeaderLen == 1 + UuidLen + 8 + 4 + 4

\* C19 as stated: queue_bytes is the sum of the payload lengths alone, the
\* record headers not counted, over the records in pending and inflight.
C19_PayloadSum ==
    queue_bytes = PayloadBytes(pending) + PayloadBytes(inflight)

\* C19 amended: queue_bytes is the sum of the payload lengths plus, for each
\* record in pending and inflight, the length of the record header that
\* encode_record writes in front of the payload.
C19_HeadersCounted ==
    queue_bytes = PayloadBytes(pending) + PayloadBytes(inflight)
                + RecordHeaderLen * ( Cardinality(DOMAIN pending)
                                    + Cardinality(DOMAIN inflight) )

\* After an enqueue, a claim and a requeue one record is pending and one is
\* inflight, and queue_bytes is above the sum of their payloads.
C19_Witness ==
    /\ Cardinality(DOMAIN pending) = 1
    /\ Cardinality(DOMAIN inflight) = 1
    /\ \E s \in DOMAIN pending : pending[s].attempts > 0
    /\ queue_bytes > PayloadBytes(pending) + PayloadBytes(inflight)

\* C20: for every record that encode_record accepts, which is every record
\* with a uuid of at most 255 bytes, decode_record of the encoded bytes
\* returns the same uuid, payload, send_after_ms (negative values too) and
\* attempts; and the encoded length is 17 + len(uuid) + len(payload),
\* whatever send_after_ms and attempts are.
C20_RoundTrip ==
    /\ codec.phase # "none" =>
           /\ codec.encoded.ok <=> Len(codec.record.uuid) <= 255
           /\ codec.encoded.ok =>
                  /\ Len(codec.encoded.value) =
                         17 + Len(codec.record.uuid) + Len(codec.record.payload)
                  /\ \A other \in CodecRecords :
                         /\ other.uuid = codec.record.uuid
                         /\ other.payload = codec.record.payload
                         => Len(encode_record(other).value) =
                                Len(codec.encoded.value)
    /\ codec.phase = "decoded" /\ codec.cut = 0 =>
           /\ codec.decoded.ok
           /\ codec.decoded.value.uuid = codec.record.uuid
           /\ codec.decoded.value.payload = codec.record.payload
           /\ codec.decoded.value.send_after_ms = codec.record.send_after_ms
           /\ codec.decoded.value.attempts = codec.record.attempts

\* A record with a uuid of 255 bytes, a negative send_after_ms, attempts
\* above 255 and a payload went through encode_record and decode_record.
C20_Witness ==
    /\ codec.phase = "decoded"
    /\ codec.cut = 0
    /\ codec.decoded.ok
    /\ Len(codec.record.uuid) = 255
    /\ codec.record.send_after_ms < 0 - 255
    /\ codec.record.attempts > 255
    /\ codec.record.payload # <<>>

\* C2: the records in queue_pending and queue_inflight never hold more than
\* queue_max_bytes bytes in total.
C2_BytesBounded == TableBytes(pending) + TableBytes(inflight) <= QueueMaxBytes

\* The queue is filled to the bound while a requeued record is in it.
C2_Witness ==
    /\ TableBytes(pending) + TableBytes(inflight) = QueueMaxBytes
    /\ \E s \in DOMAIN pending : pending[s].attempts > 0

\* C3: every seq handed out, by the writer or by a worker's requeue, is
\* greater than all seqs handed out before it and below next_seq.
C3_SeqMonotonic ==
    \A i \in 1..Len(seqlog) :
        /\ seqlog[i] < next_seq
        /\ \A j \in 1..(i - 1) : seqlog[j] < seqlog[i]

\* A worker's requeue took a seq between two enqueues of the writer.
C3_Witness ==
    \E s, t \in DOMAIN pending :
        /\ s < t
        /\ pending[s].attempts > 0
        /\ pending[t].attempts = 0

\* C5: every record in queue_pending has attempts < MAX_ATTEMPTS.
C5_PendingAttempts ==
    \A s \in DOMAIN pending : pending[s].attempts < MAX_ATTEMPTS

\* A record waits in queue_pending for its last attempt.
C5_Witness ==
    \E s \in DOMAIN pending : pending[s].attempts = MAX_ATTEMPTS - 1

FailedSend(w) == wk[w].result \notin {"ok", "absent"}

\* C6 as stated: attempts grows on every requeue, and a record is dropped
\* only with attempts >= 5 and requeued only with attempts below 5.
C6_DropOnlyWhenExhausted ==
    [][\A w \in Workers :
          /\ Requeues(w) =>
                /\ RequeuedRecord(w).attempts > wk[w].rec.attempts
                /\ wk[w].rec.attempts + 1 < MAX_ATTEMPTS
          /\ Drops(w) => wk[w].rec.attempts + 1 >= MAX_ATTEMPTS]_vars

\* C6 amended: a requeue adds exactly 1 to attempts; after a failed send the
\* record is dropped exactly when attempts + 1 >= 5 and requeued exactly when
\* it is below 5; a record is also removed, whatever its attempts, when its
\* send succeeded or its subscription was absent.
C6_RetryOrDrop ==
    [][\A w \in Workers :
          /\ Requeues(w) =>
                /\ RequeuedRecord(w).attempts = wk[w].rec.attempts + 1
                /\ FailedSend(w)
          /\ Resolves(w) /\ FailedSend(w) =>
                /\ Drops(w) <=> wk[w].rec.attempts + 1 >= MAX_ATTEMPTS
                /\ Requeues(w) <=> wk[w].rec.attempts + 1 < MAX_ATTEMPTS
          /\ Resolves(w) /\ ~FailedSend(w) => Drops(w)]_vars

\* A fifth send has failed while another record waits for a retry.
C6_Witness ==
    \E w \in Workers :
        /\ wk[w].pc = "resolve"
        /\ wk[w].result = "failed"
        /\ wk[w].rec.attempts = MAX_ATTEMPTS - 1
        /\ \E s \in DOMAIN pending : pending[s].attempts > 0

\* C7: once the sender has reported the subscription dead for a claimed
\* record, the row is deleted, a hook request for the uuid is answered 404,
\* and the worker drops the record instead of writing it back to pending.
C7_DeadSubscriptionDropsRecord ==
    [][\A w \in Workers :
          /\ (wk[w].pc = "send" /\ wk'[w].pc = "resolve"
                /\ wk'[w].result = "gone") =>
                /\ ~db_get(subs', wk[w].rec.uuid)
                /\ hook_lookup_status(subs', wk[w].rec.uuid) = 404
          /\ (Resolves(w) /\ wk[w].result = "gone") =>
                /\ HeldId(w) \notin PayloadIds(inflight')
                /\ HeldId(w) \notin PayloadIds(pending')]_vars

\* C4: with no crash, fair workers and advancing time, every record accepted
\* by enqueue is eventually removed from the queue; it is removed without
\* having been handed to the sender only if its subscription is absent; and
\* it is handed to the sender at most MAX_ATTEMPTS times.
C4_AttemptedDelivery ==
    /\ [](\A r \in QueueRecords : r.handed <= MAX_ATTEMPTS)
    /\ [][\A w \in Workers :
             Drops(w) => \/ wk[w].rec.handed >= 1
                         \/ ~db_get(subs, wk[w].rec.uuid)]_vars
    /\ \A id \in 1..MaxCalls : InQueue(id) ~> ~InQueue(id)

\* One worker drops a record that was never sent because its subscription is
\* gone, the other one has just made the fifth attempt of its record.
C4_Witness ==
    \E w, v \in Workers :
        /\ wk[w].pc = "resolve"
        /\ wk[w].result = "absent"
        /\ wk[w].rec.handed = 0
        /\ wk[v].pc = "resolve"
        /\ wk[v].rec.handed = MAX_ATTEMPTS

\* C22: a claim takes the pending record of the smallest seq among those with
\* send_after_ms <= now, whether or not a record of a smaller seq is still
\* waiting, and moves exactly this record from queue_pending to
\* queue_inflight in the one step; no record is in queue_inflight, or with
\* the sender, before its send_after_ms.
C22_ClaimsFirstReady ==
    /\ [](\A s \in DOMAIN inflight : inflight[s].send_after_ms <= now)
    /\ [](\A w \in Workers :
             wk[w].pc \in {"fetch", "send"} => wk[w].rec.send_after_ms <= now)
    /\ [][\A w \in Workers :
             WorkerClaim(w) =>
                 LET due == {s \in DOMAIN pending :
                                pending[s].send_after_ms <= now}
                 IN IF due = {}
                    THEN pending' = pending /\ inflight' = inflight
                    ELSE \E s \in due :
                            /\ \A t \in due : s <= t
                            /\ wk'[w].seq = s
                            /\ wk'[w].pc = "fetch"
                            /\ pending' = Remove(pending, s)
                            /\ inflight' = Insert(inflight, s, pending[s])]_vars

\* A worker has claimed a record while a record of a smaller seq, not yet
\* due, stays in queue_pending.
C22_Witness ==
    \E w \in Workers, s \in DOMAIN inflight, t \in DOMAIN pending :
        /\ t < s
        /\ pending[t].send_after_ms > now
        /\ wk[w].pc = "fetch"
        /\ wk[w].seq = s

\* C23 as stated: among the records that are due at the time of a claim the
\* claim goes by send_after_ms first: it never takes a record while another
\* due record in queue_pending has a strictly earlier send_after_ms.
C23_ReadyTimeFirst ==
    [][\A w \in Workers :
          WorkerClaim(w) /\ wk'[w].pc = "fetch" =>
              \A t \in DOMAIN pending :
                  pending[t].send_after_ms <= now =>
                      pending[wk'[w].seq].send_after_ms
                          <= pending[t].send_after_ms]_vars

\* the seqs handed out so far
UsedSeqs == {seqlog[i] : i \in 1..Len(seqlog)}

\* C24: when a send has failed and the incremented attempts are below 5, the
\* one step takes the record out of queue_inflight and puts it into
\* queue_pending under a seq never used before, with attempts one higher,
\* send_after_ms 500 ms after the clock and uuid and payload as they were;
\* between steps no record is in both tables, and a record a worker holds is
\* in queue_inflight.
C24_RequeueMoves ==
    /\ [](PayloadIds(pending) \cap PayloadIds(inflight) = {})
    /\ [](\A w \in Workers :
             wk[w].pc \in {"fetch", "send", "resolve"} =>
                 /\ wk[w].seq \in DOMAIN inflight
                 /\ inflight[wk[w].seq].payload = wk[w].rec.payload)
    /\ [][\A w \in Workers :
             /\ Resolves(w)
             /\ wk[w].result = "failed"
             /\ wk[w].rec.attempts + 1 < MAX_ATTEMPTS
             => /\ wk[w].seq \notin DOMAIN inflight'
                /\ DOMAIN inflight' = DOMAIN inflight \ {wk[w].seq}
                /\ next_seq \notin UsedSeqs
                /\ next_seq # wk[w].seq
                /\ DOMAIN pending' = DOMAIN pending \cup {next_seq}
                /\ next_seq \notin DOMAIN pending
                /\ next_seq' = next_seq + 1
                /\ pending'[next_seq].attempts = wk[w].rec.attempts + 1
                /\ pending'[next_seq].send_after_ms = now + 500
                /\ pending'[next_seq].uuid = wk[w].rec.uuid
                /\ pending'[next_seq].payload = wk[w].rec.payload
                /\ queue_bytes' = queue_bytes]_vars

\* A record that failed three times is in queue_pending under its fourth
\* seq, waiting for its retry.
C24_Witness ==
    \E s \in DOMAIN pending :
        /\ pending[s].attempts = 3
        /\ pending[s].send_after_ms = now + 500
        /\ s >= 3
        /\ inflight = EmptyTable

\* C25: when the sender has failed with payload-too-large for a claimed
\* record, the worker drops the record, whatever its attempts: it leaves
\* queue_inflight and is not written back to queue_pending.
C25_TooLargeDropped ==
    [][\A w \in Workers :
          Resolves(w) /\ wk[w].result = "too_large" =>
              /\ wk[w].seq \notin DOMAIN inflight'
              /\ DOMAIN pending' = DOMAIN pending
              /\ HeldId(w) \notin PayloadIds(pending')]_vars

\* C26: a claimed record whose send has succeeded, or whose subscription was
\* absent when the worker fetched it (the sender is then not called), leaves
\* queue_inflight, queue_bytes goes down by exactly its length, and it does
\* not come back to queue_pending: a record enters queue_pending only from
\* the writer channel or by the requeue after a failed send.
C26_DroppedForGood ==
    [][/\ \A w \in Workers :
             /\ WorkerFetch(w) /\ ~db_get(subs, wk[w].rec.uuid) =>
                    /\ wk'[w].pc = "resolve"
                    /\ wk'[w].result = "absent"
                    /\ wk'[w].rec.handed = wk[w].rec.handed
             /\ Resolves(w) /\ wk[w].result \in {"ok", "absent"} =>
                    /\ wk[w].seq \in DOMAIN inflight
                    /\ inflight' = Remove(inflight, wk[w].seq)
                    /\ pending' = pending
                    /\ next_seq' = next_seq
                    /\ queue_bytes' =
                           queue_bytes - RecordLen(inflight[wk[w].seq])
       /\ \A id \in PayloadIds(pending') \ PayloadIds(pending) :
             \/ chan # <<>> /\ Head(chan).payload.id = id /\ chan' = Tail(chan)
             \/ \E w \in Workers :
                    /\ Resolves(w)
                    /\ HeldId(w) = id
                    /\ wk[w].result \notin {"ok", "absent"}]_vars

\* Of two persisted records one was dropped the first time it was resolved,
\* and a worker holds the other, whose subscription was absent, without
\* having called the sender.
C26_Witness ==
    /\ next_seq = 2
    /\ chan = <<>>
    /\ pending = EmptyTable
    /\ Cardinality(DOMAIN inflight) = 1
    /\ queue_bytes = TableBytes(inflight)
    /\ \E w \in Workers :
           /\ wk[w].pc = "resolve"
           /\ wk[w].result = "absent"
           /\ wk[w].rec.handed = 0

\* C27: a claim that finds no record due commits nothing: queue_pending,
\* queue_inflight, next_seq and queue_bytes stay as they are, and the worker
\* holds no record afterwards.
C27_EmptyClaim ==
    [][\A w \in Workers :
          /\ WorkerClaim(w)
          /\ \A s \in DOMAIN pending : pending[s].send_after_ms > now
          => /\ pending' = pending
             /\ inflight' = inflight
             /\ next_seq' = next_seq
             /\ queue_bytes' = queue_bytes
             /\ wk'[w].rec = None
             /\ wk'[w].pc = "sleep"]_vars

\* A worker sleeps after a claim that found nothing due, while a record
\* waits in queue_pending for its time and another is in queue_inflight.
C27_Witness ==
    \E w \in Workers :
        /\ wk[w].pc = "sleep"
        /\ wk[w].rec = None
        /\ pending # EmptyTable
        /\ \A s \in DOMAIN pending : pending[s].send_after_ms > now
        /\ inflight # EmptyTable

\* C28: an enqueue whose record would take queue_bytes above queue_max_bytes
\* fails with 503 "queue full" and leaves the persisted state as it was: no
\* record joins queue_pending, next_seq and queue_bytes keep their values; an
\* enqueue that succeeds inserts the record under next_seq, raises next_seq
\* by 1 and queue_bytes by the record length, in the one step.
C28_QueueFull ==
    [][Writer =>
          LET record == Head(chan)
              id == record.payload.id
          IN /\ inflight' = inflight
             /\ IF queue_bytes + RecordLen(record) > QueueMaxBytes
                THEN /\ acks'[id] = "full"
                     /\ ReplyStatus(acks'[id]) = 503
                     /\ pending' = pending
                     /\ next_seq' = next_seq
                     /\ queue_bytes' = queue_bytes
                ELSE /\ acks'[id] = "ok"
                     /\ next_seq \notin DOMAIN pending
                     /\ pending' = Insert(pending, next_seq, record)
                     /\ next_seq' = next_seq + 1
                     /\ queue_bytes' = queue_bytes + RecordLen(record)]_vars

\* The first enqueue was persisted and the second was refused for lack of
\* room: one seq is used and queue_bytes is the first record's length.
C28_Witness ==
    /\ acks = <<"ok", "full">>
    /\ next_seq = 1
    /\ queue_bytes > 0
    /\ queue_bytes = TableBytes(pending) + TableBytes(inflight)

\* the payloads waiting in the writer channel
ChannelIds == {chan[i].payload.id : i \in 1..Len(chan)}

\* C29: enqueue does not wait for a saturated writer: with the channel full
\* it returns 503 at once, its record is never persisted and the queue is as
\* it was; the records that entered the channel are taken by the writer one
\* at a time, in the order in which they entered.
C29_Backpressure ==
    /\ [](calls < lim.max_calls =>
             ENABLED (\E in \in EnqueueInputs :
                         Enqueue(in.uuid, in.len, in.delay)))
    /\ [](\A id \in 1..Len(acks) :
             acks[id] = "busy" => ~InQueue(id) /\ id \notin ChannelIds)
    /\ [](\A i, j \in 1..Len(chan) :
             i < j => chan[i].payload.id < chan[j].payload.id)
    /\ [](\A s, t \in DOMAIN pending :
             s < t => pending[s].payload.id < pending[t].payload.id)
    /\ [][calls' = calls + 1 =>
             IF Len(chan) >= lim.write_buffer
             THEN /\ acks'[calls'] = "busy"
                  /\ ReplyStatus(acks'[calls']) = 503
                  /\ QueueStore' = QueueStore
             ELSE /\ acks'[calls'] = "waiting"
                  /\ Len(chan') = Len(chan) + 1
                  /\ chan'[Len(chan')].payload.id = calls'
                  /\ <<pending, inflight, next_seq, queue_bytes>>' =
                         <<pending, inflight, next_seq, queue_bytes>>]_vars
    /\ [][Writer =>
             /\ chan' = Tail(chan)
             /\ PayloadIds(pending') \subseteq
                    PayloadIds(pending) \cup {Head(chan).payload.id}
             /\ \A id \in 1..Len(acks) :
                    id # Head(chan).payload.id => acks'[id] = acks[id]
             /\ acks'[Head(chan).payload.id] # "waiting"]_vars

\* The third call found two records in the channel and was answered 503;
\* the writer has since persisted the two, in the order of their calls.
C29_Witness ==
    /\ Len(acks) >= 3
    /\ acks[1] = "ok" /\ acks[2] = "ok" /\ acks[3] = "busy"
    /\ DOMAIN pending = {0, 1}
    /\ pending[0].payload.id = 1
    /\ pending[1].payload.id = 2
    /\ chan = <<>>

\* The coordinator answers 202 once every enqueue of the request has
\* returned Ok; the request is taken to be the run's enqueue calls.
RequestAccepted ==
    /\ calls = lim.max_calls
    /\ \A id \in 1..calls : ReplyStatus(acks[id]) = 200

\* C30: enqueue returns Ok only after its transaction has committed: the
\* reply of a call becomes Ok in the step that inserts its record into
\* queue_pending, a caller waits exactly while its record is in the channel,
\* and when all enqueues of a request have returned Ok, which is when the
\* request is answered 202, each of its envelopes has been given a seq.
C30_AckAfterCommit ==
    /\ [](\A id \in 1..Len(acks) : acks[id] = "waiting" <=> id \in ChannelIds)
    /\ [](Cardinality({id \in 1..Len(acks) : acks[id] = "ok"}) <= next_seq)
    /\ [](RequestAccepted => Len(seqlog) >= calls /\ chan = <<>>)
    /\ [][\A id \in 1..Len(acks') :
             /\ acks'[id] = "ok"
             /\ id > Len(acks) \/ acks[id] # "ok"
             => /\ id \in PayloadIds(pending')
                /\ id \notin PayloadIds(pending) \cup PayloadIds(inflight)
                /\ next_seq' = next_seq + 1]_vars

\* Both enqueues of the run have returned Ok; one record is still in
\* queue_pending and a worker has already taken the other.
C30_Witness ==
    /\ RequestAccepted
    /\ PayloadIds(pending) = {2}
    /\ PayloadIds(inflight) = {1}

-----------------------------------------------------------------------------
(* Properties of subscribe *)

\* the request is an https endpoint of 1..2048 characters that parses, with
\* keys of 65 and 16 bytes in URL-safe base64, padded or not
WellFormed(s) ==
    /\ s.endpoint.parses
    /\ s.endpoint.scheme \in {"https", "HTTPS"}
    /\ s.endpoint.host # ""
    /\ EndpointLen(s.endpoint) \in 1..2048
    /\ s.p256dh = [raw_len |-> 65, form |-> s.p256dh.form]
    /\ s.auth = [raw_len |-> 16, form |-> s.auth.form]
    /\ {s.p256dh.form, s.auth.form} \subseteq {"unpadded", "padded"}

Listed(host) ==
    \E allowed \in cfg.allowed_push_hosts : Lower(allowed) = Lower(host)

Rejected == sb' # sb /\ sb'.status # 200 => sb'.status = 400 /\ subs' = subs

\* C21 as stated: a subscription is accepted only if it is well formed and
\* its host is one of the hosts of the allow-list; every other one is
\* answered 400 and nothing is stored.
C21_HostInList ==
    [][/\ sb' # sb /\ sb'.status = 200 =>
            WellFormed(sb'.request) /\ Listed(sb'.request.endpoint.host)
       /\ Rejected]_vars

\* C21: a subscription is accepted exactly if it is well formed and its host
\* is listed (letter case ignored), or the allow-list is empty or holds "*";
\* it is then stored under a new uuid.  Every other one is answered 400 and
\* nothing is stored.
C21_ValidSubscription ==
    [][sb' # sb =>
          LET s == sb'.request
              passes == \/ cfg.allowed_push_hosts = {}
                        \/ "*" \in cfg.allowed_push_hosts
                        \/ Listed(s.endpoint.host)
          IN IF WellFormed(s) /\ passes
             THEN /\ sb'.status = 200
                  /\ sb'.uuid \notin subs
                  /\ subs' = subs \cup {sb'.uuid}
             ELSE /\ sb'.status = 400
                  /\ subs' = subs]_vars

\* an upper-case endpoint with padded keys was accepted under a list of
\* hosts, and stored
C21_Witness ==
    /\ sb.status = 200
    /\ sb.uuid \in subs
    /\ "*" \notin cfg.allowed_push_hosts /\ cfg.allowed_push_hosts # {}
    /\ sb.request.endpoint.scheme = "HTTPS"
    /\ sb.request.p256dh.form = "padded"
    /\ sb.request.auth.form = "unpadded"

\* the workers that have claimed a record and not yet resolved it
Holding == {w \in Workers : wk[w].pc \in {"fetch", "send", "resolve"}}

\* C38: at every commit boundary no seq is in both queue_pending and
\* queue_inflight; a record a worker has claimed and not yet resolved is in
\* queue_inflight only, where no claim looks, and no two workers hold the
\* same seq or the same record at once.
C38_OneWorkerPerRecord ==
    /\ DOMAIN pending \cap DOMAIN inflight = {}
    /\ \A w \in Holding :
          /\ wk[w].seq \in DOMAIN inflight
          /\ wk[w].seq \notin DOMAIN pending
          /\ wk[w].rec.payload.id \notin PayloadIds(pending)
    /\ \A w1, w2 \in Holding :
          w1 # w2 => /\ wk[w1].seq # wk[w2].seq
                     /\ wk[w1].rec.payload.id # wk[w2].rec.payload.id

\* both workers are in send_push, each with a record of its own
C38_Witness ==
    /\ \A w \in Workers : wk[w].pc = "send"
    /\ Cardinality(DOMAIN inflight) = 2

\* C31 as stated: with no send failing, whenever a worker hands a chunk to
\* send_push every chunk of the request with a smaller index has been handed
\* to it before.
C31_HandedInOrder ==
    [][\A w \in Workers :
          wk[w].pc = "send" /\ wk'[w].pc = "resolve" =>
              \A i \in 1..(wk[w].rec.payload.id - 1) :
                  \A rec \in Stored(i) : rec.handed >= 1]_vars

\* C31: with no send failing, whenever a worker claims a chunk every chunk of
\* the request with a smaller index has been claimed before: none is left
\* in queue_pending or in the writer channel.
C31_ClaimedInOrder ==
    [][\A w \in Workers :
          wk[w].pc = "top" /\ wk'[w].pc = "fetch" =>
              \A i \in 1..(wk'[w].rec.payload.id - 1) :
                  /\ i \notin PayloadIds(pending')
                  /\ i \notin ChannelIds]_vars

\* one worker holds the second chunk and the other one the first, both
\* claimed and not yet sent
C31_Witness ==
    /\ wk["w1"].pc = "fetch" /\ wk["w1"].rec.payload.id = 2
    /\ wk["w2"].pc = "fetch" /\ wk["w2"].rec.payload.id = 1

\* C34: once send_push has found a subscription dead and deleted its row
\* (under OrderSpec nothing else deletes a row), no worker hands a record of
\* that uuid to send_push any more.
C34_NoTrafficAfterDead ==
    [][\A w \in Workers :
          wk[w].pc = "send" /\ wk'[w].pc = "resolve" =>
              db_get(subs, wk[w].rec.uuid)]_vars

\* the records in queue_inflight that no worker of the running process holds
Stranded ==
    {s \in DOMAIN inflight : \A w \in Holding : wk[w].seq # s}

\* C35: an exit of the process and the start after it leave queue_pending,
\* queue_inflight and queue_bytes as they are; while the process runs, a
\* record in queue_inflight that no worker holds stays there as it is, is
\* neither put back into queue_pending nor taken by a worker, and
\* queue_bytes goes on counting every record of both tables.
C35_InflightStranded ==
    [][/\ ~Down /\ Down' =>
            /\ pending' = pending /\ inflight' = inflight
            /\ queue_bytes' = queue_bytes
       /\ Down /\ ~Down' =>
            /\ pending' = pending /\ inflight' = inflight
            /\ queue_bytes # Missing => queue_bytes' = queue_bytes
       /\ ~Down /\ ~Down' =>
            \A s \in Stranded :
                /\ s \in DOMAIN inflight' /\ inflight'[s] = inflight[s]
                /\ s \notin DOMAIN pending'
                /\ inflight[s].payload.id \notin PayloadIds(pending')
                /\ \A w \in Workers : wk'[w].pc = "down" \/ wk'[w].seq # s
                                          \/ wk'[w].rec = None
       /\ ~Down' =>
            queue_bytes' = TableBytes(pending') + TableBytes(inflight')]_vars

\* after an exit and a start a record that was handed to send_push before
\* the exit is in queue_inflight, and a worker has claimed another record
C35_Witness ==
    /\ ~Down /\ lim.exits = 1
    /\ \E s \in Stranded : inflight[s].handed = 1
    /\ \E w \in Workers : wk[w].pc = "send"
    /\ queue_bytes = TableBytes(inflight) /\ Cardinality(DOMAIN inflight) = 2

C39_NoOverwrite ==
    /\ \A c, d \in Callers :
          c # d /\ sb[c].status = 200 /\ sb[d].status = 200 =>
              sb[c].uuid # sb[d].uuid
    /\ \A c \in Callers :
          sb[c].tries = MAX_CANDIDATES => sb[c].status = 500

-----------------------------------------------------------------------------
(* Properties of the chunker *)

Accepted(r) == hk[r].pc = "done" /\ hk[r].status = 202

\* C8: for a request answered 202 the envelopes enqueued for its request_id
\* carry chunk_index 1..N in enqueue order; is_last is true on the envelope
\* with index N and on no other; total_chunks is present on that envelope
\* only, and is N.
C8_ChunkIndexing ==
    \A r \in Requests :
        Accepted(r) =>
            LET N == Len(envs[r])
            IN /\ N >= 1
               /\ \A i \in 1..N :
                     /\ envs[r][i].request_id = r
                     /\ envs[r][i].chunk_index = i
                     /\ envs[r][i].is_last = (i = N)
                     /\ envs[r][i].total_chunks =
                            IF i = N THEN Some(N) ELSE Absent

\* Two accepted requests: one of four envelopes, one of five whose last
\* chunk is empty.
C8_Witness ==
    \E r, q \in Requests :
        /\ Accepted(r) /\ Accepted(q)
        /\ Len(envs[r]) = 4
        /\ Len(envs[q]) = 5
        /\ envs[q][5].data = <<>>

RECURSIVE ChunkBytes(_)
\* the chunk bytes of a sequence of envelopes, laid end to end
ChunkBytes(envelopes) ==
    IF envelopes = <<>> THEN <<>>
    ELSE Base64Decode(Head(envelopes).data) \o ChunkBytes(Tail(envelopes))

\* C10: for a request answered 202, whatever the reads that delivered its
\* body, the chunk bytes of its envelopes in chunk_index order are
\* WHP1, the 4-byte big-endian length of the metadata, the metadata and the
\* body, byte for byte.
C10_Reassembly ==
    \A r \in Requests :
        Accepted(r) =>
            ChunkBytes(envs[r]) =
                Magic \o to_be_bytes(Len(hk[r].meta)) \o hk[r].meta
                      \o hk[r].body

\* A body that came in two reads, and a chunk that holds the end of the
\* metadata and the body.
C10_Witness ==
    \E r \in Requests :
        /\ Accepted(r)
        /\ hk[r].reads = 2
        /\ hk[r].body = <<104, 105>>
        /\ Len(envs[r]) >= 4
        /\ \E i \in 1..Len(envs[r]) :
              Base64Decode(envs[r][i].data) = <<125, 104, 105>>

\* The sizing's account of the chunker agrees with the chunker: an accepted
\* request has chunk_count envelopes whose data have the lengths of
\* chunk_len in base64 (an invariant of HookSpec).
ChunkSummaryAgrees ==
    \A r \in Requests :
        Accepted(r) =>
            LET total_len == Len(Prefix(hk[r].meta)) + Len(hk[r].body)
            IN /\ Len(envs[r]) = chunk_count(total_len, hk[r].chunk_size)
               /\ \A i \in 1..Len(envs[r]) :
                     Len(envs[r][i].data) =
                         Base64Len(chunk_len(total_len, hk[r].chunk_size, i))

\* the framed length of a request: 8 + len(meta) + len(body)
FramedLen(r) == Len(Magic) + 4 + Len(hk[r].meta) + Len(hk[r].body)

CeilDiv(a, b) == (a + b - 1) \div b

OnlyLastIsLast(r) ==
    \A i \in 1..Len(envs[r]) :
        /\ envs[r][i].chunk_index = i
        /\ envs[r][i].is_last = (i = Len(envs[r]))

\* C11 as stated: an accepted request of framed length T and chunk size c
\* has exactly ceil(T / c) envelopes, indexed 1..N, only envelope N being
\* the last.
C11_CeilingCount ==
    \A r \in Requests :
        Accepted(r) =>
            /\ Len(envs[r]) = CeilDiv(FramedLen(r), hk[r].chunk_size)
            /\ OnlyLastIsLast(r)

\* C11 amended: an accepted request of framed length T and chunk size c has
\* exactly floor(T / c) + 1 envelopes, indexed 1..N, only envelope N being
\* the last; that is ceil(T / c) unless c divides T, where the last
\* envelope carries an empty chunk.
C11_ChunkCount ==
    \A r \in Requests :
        Accepted(r) =>
            /\ Len(envs[r]) = FramedLen(r) \div hk[r].chunk_size + 1
            /\ OnlyLastIsLast(r)
            /\ (FramedLen(r) % hk[r].chunk_size # 0 =>
                    Len(envs[r]) = CeilDiv(FramedLen(r), hk[r].chunk_size))
            /\ (FramedLen(r) % hk[r].chunk_size = 0 =>
                    envs[r][Len(envs[r])].data = <<>>)

\* One accepted request whose framed length is a multiple of the chunk size
\* and one whose framed length is not.
C11_Witness ==
    \E r, q \in Requests :
        /\ Accepted(r) /\ Accepted(q)
        /\ FramedLen(r) % hk[r].chunk_size = 0
        /\ FramedLen(q) % hk[q].chunk_size # 0

\* C32: the envelopes of a request are submitted one at a time in the order of
\* their chunk_index, and each with a send_after that is chunk_delay_ms after
\* the send_after of the envelope before it.
C32_SpacedInOrder ==
    [][\A r \in Requests :
          envs'[r] # envs[r] =>
              LET n == Len(envs[r])
              IN /\ Len(envs'[r]) = n + 1
                 /\ SubSeq(envs'[r], 1, n) = envs[r]
                 /\ envs'[r][n + 1].chunk_index = n + 1
                 /\ n = 0 => envs'[r][n + 1].send_after = 0
                 /\ n > 0 => envs'[r][n + 1].send_after =
                                 envs[r][n].send_after + CHUNK_DELAY_MS]_vars

\* a request has submitted four envelopes, the last of them 150 ms after the
\* first
C32_Witness ==
    \E r \in Requests :
        /\ Len(envs[r]) = 4
        /\ envs[r][4].is_last
        /\ envs[r][4].send_after = envs[r][1].send_after + 3 * CHUNK_DELAY_MS

\* the request has submitted an envelope with is_last = true
LastSubmitted(submitted) ==
    \E i \in 1..Len(submitted) : submitted[i].is_last

\* C33: a request that fails after its loop has begun (400, 408, 413, 503)
\* leaves the envelopes it has submitted where they are, and none of them has
\* is_last = true: the requests that have submitted an is_last envelope are
\* those that return 202.
C33_NoLastOnFailure ==
    [][\A r \in Requests :
          /\ SubSeq(envs'[r], 1, Len(envs[r])) = envs[r]
          /\ hk[r].pc = "loop" /\ hk'[r].pc = "done" /\ hk'[r].status # 202 =>
                /\ hk'[r].status \in {400, 408, 413, 503}
                /\ envs'[r] = envs[r]
                /\ ~LastSubmitted(envs'[r])
          /\ LastSubmitted(envs'[r]) <=>
                hk'[r].pc = "done" /\ hk'[r].status = 202]_vars

\* a request has failed on its body limit, another on a refused enqueue,
\* each with envelopes submitted before
C33_Witness ==
    \E r, q \in Requests :
        /\ hk[r].pc = "done" /\ hk[r].status = 413 /\ Len(envs[r]) >= 2
        /\ hk[q].pc = "done" /\ hk[q].status = 503 /\ Len(envs[q]) >= 1

-----------------------------------------------------------------------------
(* Properties of the envelope sizing *)

\* C9: with the chunk size resolve_chunk_size returns, for every configured
\* chunk_data_bytes >= 1, every max_payload_bytes and every metadata and body
\* within the limits, each envelope the chunker emits, last or not, whatever
\* the digits of its chunk_index and total_chunks, serialises to at most
\* MAX_ENVELOPE_BYTES bytes of JSON.
C9_EnvelopeFits == sz.phase = "emitted" => sz.size <= MAX_ENVELOPE_BYTES

\* An envelope that is not the last and has a two-digit index, under a chunk
\* size that resolve_chunk_size has cut below the configured one: another
\* base64 group of four characters would pass the limit.
C9_Witness ==
    /\ sz.phase = "emitted"
    /\ sz.chunk_size < cfg.chunk_data_bytes
    /\ sz.chunk_index * sz.chunk_size
           <= Len(Magic) + 4 + sz.meta_len + sz.body_len
    /\ DecimalDigits(sz.chunk_index) = 2
    /\ sz.size + 4 >= MAX_ENVELOPE_BYTES

\* C15: a hook request that is turned away before it reads its body
\* enqueues nothing and leaves the queue as it was: an unknown uuid is
\* answered 404 without a call of the limiter, a request the limiter refuses
\* 429, metadata above max_payload_bytes or a Content-Length above
\* max_body_bytes 413.
C15_EarlyRejection ==
    [][\A r \in Requests, in \in HookInputs :
          HookBegin(r, in) =>
              LET max_body_bytes == cfg.max_payload_bytes - Len(in.meta)
                  known == in.uuid \in subs
                  refused == /\ known
                             /\ ~recent'[in.uuid][Len(recent'[in.uuid])].granted
                  oversized == \/ Len(in.meta) > cfg.max_payload_bytes
                               \/ /\ in.has_length
                                  /\ Len(in.body) > max_body_bytes
              IN /\ ~known => /\ hk'[r].status = 404
                              /\ rate' = rate
                              /\ recent' = recent
                 /\ refused => hk'[r].status = 429
                 /\ known /\ ~refused /\ oversized => hk'[r].status = 413
                 /\ known /\ ~refused /\ ~oversized => hk'[r].pc = "loop"
                 /\ hk'[r].pc = "done" =>
                        /\ hk'[r].status \in {404, 429, 413}
                        /\ envs[r] = <<>>
                        /\ envs' = envs
                        /\ QueueStore' = QueueStore]_vars

\* A request for an unknown uuid was answered 404 and the limiter has no
\* entry for that uuid; the other request was answered 413.
C15_Witness ==
    \E r, q \in Requests :
        /\ hk[r].status = 404
        /\ rate[hk[r].uuid] = NoEntry
        /\ hk[q].status = 413
        /\ hk[q].reads = 0
        /\ envs[r] = <<>> /\ envs[q] = <<>>

\* max_body_bytes = max_payload_bytes - len(meta)
MaxBody(r) == cfg.max_payload_bytes - Len(hk[r].meta)

\* the body bytes the handler has taken from the stream
BytesRead(r) == Len(hk[r].body) - Len(hk[r].rest)

\* C16: a request whose cumulative body bytes exceed max_body_bytes =
\* max_payload_bytes - len(meta), be it by one byte, is answered 413 by the
\* read that takes it over and is never answered 202; a body of exactly
\* max_body_bytes is not turned away for its size.
C16_BodyLimit ==
    /\ [](\A r \in Requests :
             /\ Accepted(r) => Len(hk[r].body) <= MaxBody(r)
             /\ hk[r].pc = "loop" => BytesRead(r) <= MaxBody(r)
             /\ hk[r].status = 413 =>
                    \/ Len(hk[r].meta) > cfg.max_payload_bytes
                    \/ Len(hk[r].body) > MaxBody(r))
    /\ [][\A r \in Requests :
             hk[r].pc = "loop" /\ ~ChunkReady(hk[r].buffer, hk[r].chunk_size) =>
                 \A n \in 1..Len(hk[r].rest) :
                     hk'[r] = AfterRead(hk[r], n) =>
                         IF BytesRead(r) + n > MaxBody(r)
                         THEN hk'[r].pc = "done" /\ hk'[r].status = 413
                         ELSE hk'[r].pc = "loop"]_vars

\* A body of exactly max_body_bytes was accepted; a body one byte longer,
\* sent without Content-Length, was read up to the limit and answered 413.
C16_Witness ==
    \E r, q \in Requests :
        /\ Accepted(r)
        /\ Len(hk[r].body) = MaxBody(r)
        /\ Len(hk[r].body) > 0
        /\ hk[q].status = 413
        /\ Len(hk[q].body) = MaxBody(q) + 1
        /\ hk[q].reads = MaxBody(q)

\* C17 as stated: a request with an empty body has exactly one envelope,
\* with is_last = true and chunk_index = 1, whose data is the base64 of the
\* 8-byte header and the metadata.
C17_SingleEnvelope ==
    \A r \in Requests :
        Accepted(r) /\ hk[r].body = <<>> =>
            /\ Len(envs[r]) = 1
            /\ envs[r][1].is_last
            /\ envs[r][1].chunk_index = 1
            /\ envs[r][1].data =
                   base64_encode(Magic \o to_be_bytes(Len(hk[r].meta))
                                       \o hk[r].meta)

\* C17 amended: a request with an empty body whose 8-byte header and
\* metadata are shorter than the chunk size has exactly one envelope, with
\* is_last = true and chunk_index = 1, whose data is the base64 of header
\* and metadata; when they are not shorter, header and metadata are spread
\* over floor((8 + len(meta)) / chunk_size) + 1 envelopes.
C17_EmptyBody ==
    \A r \in Requests :
        Accepted(r) /\ hk[r].body = <<>> =>
            LET framed == Magic \o to_be_bytes(Len(hk[r].meta)) \o hk[r].meta
            IN IF Len(framed) < hk[r].chunk_size
               THEN /\ Len(envs[r]) = 1
                    /\ envs[r][1].is_last
                    /\ envs[r][1].chunk_index = 1
                    /\ envs[r][1].data = base64_encode(framed)
               ELSE /\ Len(envs[r]) = Len(framed) \div hk[r].chunk_size + 1
                    /\ ChunkBytes(envs[r]) = framed

\* An accepted request with an empty body and a single envelope that holds
\* header and metadata.
C17_Witness ==
    \E r \in Requests :
        /\ Accepted(r)
        /\ hk[r].body = <<>>
        /\ Len(envs[r]) = 1
        /\ Len(envs[r][1].data) = Base64Len(8 + Len(hk[r].meta))

\* the largest r >= 0 with 4 * ceil(r / 3) <= available
LargestRaw(available) ==
    CHOOSE r \in 0..available :
        /\ 4 * ((r + 2) \div 3) <= available
        /\ 4 * ((r + 3) \div 3) > available

\* C37 as stated: max_chunk_data_bytes returns min(configured, r), and fails
\* with "chunk overhead exceeds push limit" when overhead >= 3000 or r is
\* zero; no request produces more chunks than max_total_bytes, the index
\* the overhead is computed for.
C37_OverheadMessage ==
    /\ sz.phase = "limited" =>
          LET r == IF sz.overhead >= MAX_ENVELOPE_BYTES THEN 0
                   ELSE LargestRaw(MAX_ENVELOPE_BYTES - sz.overhead)
          IN IF r = 0
             THEN sz.result.message = "chunk overhead exceeds push limit"
             ELSE sz.result.status = 0 =>
                      sz.result.chunk_size = Min(sz.configured, r)
    /\ sz.phase = "emitted" =>
          sz.chunk_index <= Len(Magic) + 4 + cfg.max_payload_bytes

\* C37: max_chunk_data_bytes fails with "chunk overhead exceeds push limit"
\* when overhead >= 3000, fails with "chunk size too small" when
\* min(configured, r) is zero, and returns min(configured, r) otherwise, r
\* being the largest r >= 0 with 4 * ceil(r / 3) <= 3000 - overhead.  The
\* chunk size of a request is the one for the overhead of a last envelope
\* whose index and total are max_total_bytes = 8 + max_payload_bytes.  A
\* request produces at most max_total_bytes + 1 chunks, and at most
\* max_total_bytes with a chunk size above 1.
C37_ChunkSizeResolved ==
    /\ sz.phase = "limited" =>
          IF sz.overhead >= MAX_ENVELOPE_BYTES
          THEN /\ sz.result.status = 413
               /\ sz.result.message = "chunk overhead exceeds push limit"
          ELSE LET r == LargestRaw(MAX_ENVELOPE_BYTES - sz.overhead)
               IN IF Min(sz.configured, r) = 0
                  THEN /\ sz.result.status = 413
                       /\ sz.result.message = "chunk size too small"
                  ELSE /\ sz.result.status = 0
                       /\ sz.result.chunk_size = Min(sz.configured, r)
    /\ sz.phase \in {"resolved", "emitted"} =>
          LET worst == Len(Magic) + 4 + cfg.max_payload_bytes
              overhead == envelope_json_len(RequestIdLen, worst, Some(worst),
                                            TRUE, 0)
          IN sz.chunk_size = Min(cfg.chunk_data_bytes,
                                 LargestRaw(MAX_ENVELOPE_BYTES - overhead))
    /\ sz.phase = "emitted" =>
          /\ sz.chunk_index <= Len(Magic) + 4 + cfg.max_payload_bytes + 1
          /\ sz.chunk_size > 1 =>
                sz.chunk_index <= Len(Magic) + 4 + cfg.max_payload_bytes

\* three bytes are left beside the overhead: no byte of data fits
C37_Witness ==
    /\ sz.phase = "limited"
    /\ sz.overhead = MAX_ENVELOPE_BYTES - 3
    /\ sz.configured = 2160
    /\ sz.result.status = 413

-----------------------------------------------------------------------------
(* Properties of the rate limiter *)

\* the calls of allow(u) of the last 60 s that were answered true
Granted(u) == {i \in 1..Len(recent[u]) : recent[u][i].granted}

\* C12: for a limit L > 0 and any key, the calls of allow that return true
\* within any interval of 60 s, wherever it begins, number at most L.
C12_SlidingWindow ==
    cfg.rate_limit_per_minute > 0 =>
        \A u \in UUIDS : Cardinality(Granted(u)) <= cfg.rate_limit_per_minute

\* the step is a call of allow(u)
AllowCalled(u) == Len(recent'[u]) > Len(recent[u])

\* C18: unsubscribe deletes the subscription only when the x-delete-token
\* header equals the stored delete_token, and then answers 204; a missing or
\* empty token is answered 401, an unknown uuid 404, a token that is not the
\* stored one 403, and in each of these the subscription store is unchanged.
C18_DeleteNeedsToken ==
    [][\A u \in UUIDS, provided \in Tokens :
          Unsubscribe(u, provided) =>
              /\ resp'.status \in {204, 401, 403, 404}
              /\ resp'.status = 204 <=>
                     u \in subs /\ provided = DeleteToken(u)
              /\ resp'.status = 204 => subs' = subs \ {u}
              /\ provided = "" => resp'.status = 401
              /\ provided # "" /\ u \notin subs => resp'.status = 404
              /\ provided # "" /\ u \in subs /\ provided # DeleteToken(u)
                     => resp'.status = 403
              /\ resp'.status # 204 => subs' = subs /\ QueueStore' = QueueStore
      ]_vars

\* After one subscription was deleted, a request for the other with the
\* deleted one's token was answered 403 and the subscription is still there.
C18_Witness ==
    /\ resp.status = 403
    /\ resp.uuid \in subs
    /\ resp.provided # ""
    /\ subs # UUIDS

\* C14: with rate_limit_per_minute = 0 every call of allow returns true,
\* whatever the calls before it, and the limiter's map is never changed.
C14_UnlimitedPasses ==
    [][cfg.rate_limit_per_minute = 0 =>
          /\ rate' = rate
          /\ \A u \in UUIDS : rate[u] = NoEntry
          /\ \A u \in UUIDS :
                AllowCalled(u) => recent'[u][Len(recent'[u])].granted]_vars

\* With no limit, four calls for one uuid within a minute have passed, and
\* calls for the other uuid as well.
C14_Witness ==
    /\ cfg.rate_limit_per_minute = 0
    /\ \E u, v \in UUIDS :
          /\ u # v
          /\ Len(recent[u]) = MaxRecent
          /\ Cardinality(Granted(u)) = MaxRecent
          /\ Cardinality(Granted(v)) >= 1

\* the hook requests for u that have got as far as the limiter
Gated(u) ==
    {r \in Requests : hk[r].pc # "new" /\ hk[r].uuid = u /\ hk[r].status # 404}

\* all of them arrived within the last 60 s: u had no call before them
AllRecent(u) == Gated(u) = {recent[u][i].id : i \in 1..Len(recent[u])}

\* C13: with a limit L > 0 and a uuid with no earlier calls, of the hook
\* requests for it that arrive within less than 60 s the first L pass the
\* limiter and every later one, the (L+1)-th to begin with, is answered 429
\* and enqueues nothing.
C13_OverLimitRejected ==
    cfg.rate_limit_per_minute > 0 =>
        \A u \in UUIDS :
            AllRecent(u) =>
                \A i \in 1..Len(recent[u]) :
                    LET r == recent[u][i].id
                    IN IF i <= cfg.rate_limit_per_minute
                       THEN hk[r].status # 429
                       ELSE /\ hk[r].pc = "done"
                            /\ hk[r].status = 429
                            /\ envs[r] = <<>>

\* L + 1 requests for one uuid within a minute: the first L were accepted,
\* the last one was turned away.
C13_Witness ==
    \E u \in UUIDS :
        /\ AllRecent(u)
        /\ Len(recent[u]) = cfg.rate_limit_per_minute + 1
        /\ \A i \in 1..cfg.rate_limit_per_minute : Accepted(recent[u][i].id)
        /\ hk[recent[u][Len(recent[u])].id].status = 429

\* the last call of allow(u) was answered true
LastGranted(u) == recent'[u][Len(recent'[u])].granted

\* C40: with a limit L > 0 no entry's count exceeds L.  A call of allow
\* changes the entry of its key only; answered true it adds one to the count
\* of the window, answered false it leaves count and window_start as they
\* are.  A window begins anew, with count 0, only in a call that comes 60 s
\* or more after its window_start, and the count never falls otherwise: so
\* between two resets at most L calls are answered true.
C40_WindowAccounting ==
    [][cfg.rate_limit_per_minute > 0 =>
          \A u \in UUIDS :
              /\ rate[u].count <= cfg.rate_limit_per_minute
              /\ rate'[u].count <= cfg.rate_limit_per_minute
              /\ AllowCalled(u) =>
                    LET reset == rate[u].present /\ rate[u].age >= WINDOW_SECS
                        before == IF reset \/ ~rate[u].present THEN 0
                                  ELSE rate[u].count
                    IN /\ \A v \in UUIDS \ {u} : rate'[v] = rate[v]
                       /\ LastGranted(u) <=>
                              before < cfg.rate_limit_per_minute
                       /\ LastGranted(u) =>
                              /\ rate'[u].count = before + 1
                              /\ rate'[u].age = IF reset \/ ~rate[u].present
                                                THEN 0 ELSE rate[u].age
                       /\ ~LastGranted(u) => rate'[u] = rate[u]
              /\ ~AllowCalled(u) =>
                    /\ rate'[u].count = rate[u].count
                    /\ rate'[u].present = rate[u].present
                    /\ rate'[u].age >= rate[u].age]_vars

\* with the limit 2 a key has used up its window and was then refused, its
\* window being 30 s old; the other key has a window of its own
C40_Witness ==
    /\ cfg.rate_limit_per_minute = 2
    /\ \E u, v \in UUIDS :
          /\ u # v
          /\ rate[u].count = 2 /\ rate[u].age = WINDOW_SECS \div 2
          /\ \E i \in 1..Len(recent[u]) : ~recent[u][i].granted
          /\ rate[v].present /\ rate[v].count = 1

=============================================================================
